---- MODULE Spec2Model ----
(***************************************************************************)
(* A model of the walrus-cli transfer core: the S3 -> Walrus batch         *)
(* orchestrator (backend/transfer.go), the destination response decoder    *)
(* (backend/client.go), the SimpleFs local index (backend SimpleFs) and    *)
(* the index endpoints of the API server.                                  *)
(*                                                                         *)
(* Strings that the code takes apart (object keys, target names) are       *)
(* sequences of one-character strings; ".sealed" is one token.             *)
(***************************************************************************)
EXTENDS Integers, Sequences, FiniteSets, Bags, TLC

\* ------------------------------------------------------------------ bounds
\* Largest number of objects a listing returns.
MaxJobs == 3
\* Largest number of keys in a POST transfer request.
MaxReqKeys == 1

\* ------------------------------------------------------- program constants
\* NewTransferManager: the lower and the upper clamp of the concurrency.
MinConcurrency == 1
MaxConcurrency == 10

\* The concurrency values handed to NewTransferManager: one below the lower
\* clamp and two inside the range, so that one or two workers run.
ConcurrencyInputs == {0, 1, 2}

\* transferSingleFile, job.Size < 100*1024*1024: the object is buffered
\* before it is read.
BufferLimit == 100 * 1024 * 1024

\* ------------------------------------------------------------ source store
\* The bucket: objects in S3's listing order (lexicographic by key), each with
\* its size. Two keys share the last path segment "x"; the object y is too
\* large to be buffered.
AllObjects ==
  << [Key |-> <<"a", "/", "x">>, Size |-> 1],
     [Key |-> <<"b", "/", "x">>, Size |-> 2],
     [Key |-> <<"y">>,           Size |-> BufferLimit],
     [Key |-> <<"z">>,           Size |-> 4],
     [Key |-> <<"z", "/", "y">>, Size |-> 5] >>

Min(a, b) == IF a < b THEN a ELSE b

\* The listings ListObjects may return: the first n objects of the bucket.
Listings == { SubSeq(AllObjects, 1, n) : n \in 0..Min(MaxJobs, Len(AllObjects)) }

\* The destination is content addressed: every object has its own blob id.
BlobOf(key) ==
  CASE key = <<"a", "/", "x">> -> "B1"
    [] key = <<"b", "/", "x">> -> "B2"
    [] key = <<"y">>           -> "B3"
    [] key = <<"z">>           -> "B4"
    [] OTHER                   -> "B5"

\* ------------------------------------------------------------- path.Base
RECURSIVE StripSlashes(_)
StripSlashes(p) ==
  IF Len(p) > 0 /\ p[Len(p)] = "/" THEN StripSlashes(SubSeq(p, 1, Len(p) - 1)) ELSE p

\* Index of the last "/" of p, 0 when there is none (Go: -1).
LastSlash(p) ==
  LET S == { i \in 1..Len(p) : p[i] = "/" }
  IN IF S = {} THEN 0 ELSE CHOOSE i \in S : \A j \in S : j <= i

Base(p) ==
  IF p = <<>> THEN <<".">>
  ELSE LET s == StripSlashes(p)
           t == SubSeq(s, LastSlash(s) + 1, Len(s))
       IN IF t = <<>> THEN <<"/">> ELSE t

\* TransferBatch, the job construction loop.
TargetNameOf(key) == LET targetName == Base(key) IN IF targetName = <<>> THEN key ELSE targetName

MakeJob(obj, encryptionEnabled) ==
  [Key |-> obj.Key, Size |-> obj.Size, TargetName |-> TargetNameOf(obj.Key),
   Encrypt |-> encryptionEnabled]

MakeJobs(objects, encryptionEnabled) ==
  [i \in 1..Len(objects) |-> MakeJob(objects[i], encryptionEnabled)]

RECURSIVE SumSizes(_)
SumSizes(s) == IF s = <<>> THEN 0 ELSE s[1].Size + SumSizes(Tail(s))

\* A constructor that clamps the low side only.
ClampConcurrencyLowOnly(c) == IF c <= 0 THEN MinConcurrency ELSE c

\* NewTransferManager: the concurrency is clamped, never rejected.
ClampConcurrency(c) ==
  IF c <= 0 THEN MinConcurrency ELSE IF c > MaxConcurrency THEN MaxConcurrency ELSE c

\* --------------------------------------------------- destination responses
\* The storage object of a payload; a key absent from the JSON is its zero.
ZeroStorage == [endEpoch |-> 0, storage_end_epoch |-> 0, storage_size |-> 0, storageSize |-> 0]

\* walrusStoragePayload.endEpoch / size
StorageEndEpoch(p) ==
  IF p.endEpoch # 0 THEN p.endEpoch
  ELSE IF p.storage_end_epoch # 0 THEN p.storage_end_epoch ELSE 0

StorageSize(p) ==
  IF p.storage_size # 0 THEN p.storage_size
  ELSE IF p.storageSize # 0 THEN p.storageSize ELSE 0

\* resolveSize(fallback, candidates...): the first positive candidate wins.
RECURSIVE resolveSize(_, _)
resolveSize(fallback, candidates) ==
  IF candidates = <<>> THEN fallback
  ELSE IF candidates[1] > 0 THEN candidates[1] ELSE resolveSize(fallback, Tail(candidates))

\* A JSON object with number values: the keys it has and their values.
EmptyObject == [k \in {} |-> 0]

\* json.Unmarshal of one struct field: the value under the field's tag, the
\* zero value when the object has no such key.
Field(object, tag) == IF tag \in DOMAIN object THEN object[tag] ELSE 0

\* json.Unmarshal into walrusStoragePayload.
UnmarshalStorage(object) ==
  [endEpoch |-> Field(object, "endEpoch"),
   storage_end_epoch |-> Field(object, "storage_end_epoch"),
   storage_size |-> Field(object, "storage_size"),
   storageSize |-> Field(object, "storageSize")]

\* A payload under newlyCreated / alreadyCertified. object = FALSE is a JSON
\* value that is no object (both struct decodings fail or find no blob id);
\* storage is the JSON object under "storage"; blobObject holds the legacy
\* nested encoding.
ZeroBlobObject == [blobId |-> "", storage |-> EmptyObject, size |-> 0]
Payload(blobId, nestedBlobId) ==
  [object |-> TRUE, blobId |-> blobId, endEpoch |-> 0, storage |-> EmptyObject, size |-> 0,
   cost |-> 0,
   blobObject |-> [ZeroBlobObject EXCEPT !.blobId = nestedBlobId]]

Absent == [object |-> FALSE, absent |-> TRUE]
NotAnObject == [object |-> FALSE, absent |-> FALSE]
IsAbsent(raw) == ~raw.object /\ raw.absent

Failure == [ok |-> FALSE, BlobID |-> "", EndEpoch |-> 0, Size |-> 0, AlreadyCertified |-> FALSE, Cost |-> 0]

\* The result of a payload whose blob id, storage object and size were found.
Parsed(blobId, endEpoch, object, size, fallbackSize, already, cost) ==
  LET storage == UnmarshalStorage(object)
  IN [ok |-> TRUE, BlobID |-> blobId,
      EndEpoch |-> IF endEpoch = 0 THEN StorageEndEpoch(storage) ELSE endEpoch,
      Size |-> resolveSize(fallbackSize, << StorageSize(storage), size >>),
      AlreadyCertified |-> already, Cost |-> cost]

parseNewlyCreated(raw, fallbackSize) ==
  IF ~raw.object THEN Failure
  ELSE LET modern == raw.blobId # ""
           legacy == raw.blobObject
       IN IF ~modern /\ legacy.blobId = "" THEN Failure
          ELSE Parsed(IF modern THEN raw.blobId ELSE legacy.blobId, 0,
                      IF modern THEN raw.storage ELSE legacy.storage,
                      IF modern THEN raw.size ELSE legacy.size,
                      fallbackSize, FALSE, raw.cost)

parseAlreadyCertified(raw, fallbackSize) ==
  IF ~raw.object THEN Failure
  ELSE LET modern == raw.blobId # ""
           legacy == raw.blobObject
       IN IF ~modern /\ legacy.blobId = "" THEN Failure
          ELSE Parsed(IF modern THEN raw.blobId ELSE legacy.blobId,
                      IF modern THEN raw.endEpoch ELSE 0,
                      IF modern THEN raw.storage ELSE legacy.storage,
                      IF modern THEN raw.size ELSE legacy.size,
                      fallbackSize, TRUE, IF modern THEN 0 ELSE raw.cost)

\* An envelope: json = FALSE is a body that is not JSON.
Envelope(newly, already, cost) ==
  [json |-> TRUE, newlyCreated |-> newly, alreadyCertified |-> already, cost |-> cost]
NotJson == [json |-> FALSE, newlyCreated |-> Absent, alreadyCertified |-> Absent, cost |-> 0]

decodeStoreResponse(envelope, fallbackSize) ==
  IF ~envelope.json THEN Failure
  ELSE IF ~IsAbsent(envelope.newlyCreated)
  THEN LET parsed == parseNewlyCreated(envelope.newlyCreated, fallbackSize)
       IN IF parsed.ok
          THEN [parsed EXCEPT !.Cost = IF envelope.cost = 0 THEN parsed.Cost ELSE envelope.cost]
          ELSE Failure
  ELSE IF ~IsAbsent(envelope.alreadyCertified)
  THEN LET parsed == parseAlreadyCertified(envelope.alreadyCertified, fallbackSize)
       IN IF parsed.ok THEN [parsed EXCEPT !.Cost = envelope.cost] ELSE Failure
  ELSE Failure

\* What the publisher may answer to the PUT of an object: a transport error
\* or a status other than 200/201 (http = FALSE), or a 200 with a body.
HttpError == [http |-> FALSE, body |-> NotJson]
Http200(body) == [http |-> TRUE, body |-> body]

PublisherAnswers(key) ==
  { HttpError,
    Http200(NotJson),
    Http200(Envelope(Absent, Absent, 0)),
    Http200(Envelope(Payload(BlobOf(key), ""), Absent, 0)),
    Http200(Envelope(Payload("", BlobOf(key)), Absent, 0)),
    Http200(Envelope(Payload("", ""), Absent, 0)),
    Http200(Envelope(NotAnObject, Absent, 0)),
    Http200(Envelope(Absent, Payload(BlobOf(key), ""), 0)),
    Http200(Envelope(Absent, Payload("", ""), 0)) }

\* WalrusClient.StoreBlob: one PUT, then the decoding of the answer.
StoreBlob(answer, dataLen) ==
  IF ~answer.http THEN Failure ELSE decodeStoreResponse(answer.body, dataLen)


\* -------------------------------------------------------------- the state
VARIABLES
  phase,        \* TransferBatch: "init", "executing" (workers running), "done" (returned)
  listing,      \* what ListObjects returns for the bucket and the filter
  concurrency,  \* tm.concurrency, clamped by NewTransferManager
  dryRun,       \* tm.dryRun
  encrypt,      \* encryptionConfig != nil && encryptionConfig.Enabled
  batchErr,     \* TransferBatch returned an error (and no progress)
  jobChan,      \* the buffered, closed job channel
  semaphore,    \* number of permits held
  cancelled,    \* ctx.Done() is closed
  progress,     \* the TransferProgress
  wk,           \* the worker goroutines: position and locals
  index,        \* SimpleFs.index.Files
  indexMu,      \* SimpleFs.indexMu: 0 when free, else the worker holding the write lock
  disk,         \* the document at SimpleFs.GetIndexPath()
  writable,     \* the index path can be written (else every os.WriteFile fails)
  rcloneDoc,    \* the document at getIndexPath(), the index the CLI commands list
  handed,       \* the result the last operation returned, if it was a TransferSingle
  response,     \* the response entries of the last operation, if it was a POST transfer
  failedKeys,   \* history: the keys whose download or store failed in this batch
  traffic,      \* history: the calls of this batch to the source and to the publisher, per key
  lastOp,       \* the last operation of a sequential caller and the error it returned
  retr,         \* a call of WalrusClient.RetrieveBlob: position, locals, what it returned
  call          \* a call of one of the package's pure functions: arguments and return value

vars == << phase, listing, concurrency, dryRun, encrypt, batchErr, jobChan, semaphore,
           cancelled, progress, wk, index, indexMu, disk, writable, rcloneDoc, handed,
           response, failedKeys, traffic, lastOp, retr, call >>

\* No call of RetrieveBlob is running; no pure function has been called.
IdleRetrieve ==
  [pc |-> "idle", script |-> <<>>, attempt |-> 0, lastErr |-> <<>>, log |-> <<>>,
   data |-> "", err |-> <<>>]
NoCall == [fn |-> "", args |-> <<>>, out |-> <<>>]

\* No DownloadObject, no StoreBlob and no HTTP PUT has been issued.
NoTraffic == [downloads |-> EmptyBag, stores |-> EmptyBag, puts |-> EmptyBag]
\* No operation has returned yet.
NoOp == [op |-> "", err |-> ""]

\* A pool with one worker more than the semaphore has permits.
WorkersOneMore == 1..(concurrency + 1)

\* for i := 0; i < tm.concurrency; i++: the worker goroutines.
Workers == 1..concurrency

NoJob == [Key |-> <<>>, Size |-> 0, TargetName |-> <<>>, Encrypt |-> FALSE]
NoResult ==
  [SourceKey |-> <<>>, TargetName |-> <<>>, BlobID |-> "", Size |-> 0, Success |-> FALSE,
   Error |-> "", ExpiryEpoch |-> 0]

\* The document on disk: missing, or the JSON of an index. torn marks bytes
\* that are not the JSON of one index: a serialisation that raced with a map
\* write, a file cut to zero bytes, or the bytes of two documents mixed.
MissingDoc == [exists |-> FALSE, torn |-> FALSE, Files |-> {}]
Doc(files) == [exists |-> TRUE, torn |-> FALSE, Files |-> files]
TornDoc(files) == [exists |-> TRUE, torn |-> TRUE, Files |-> files]

\* The file right after OpenFile(..., O_WRONLY|O_CREATE|O_TRUNC): zero bytes.
Truncated == TornDoc({})

\* The length of a document in bytes, up to a scale: the braces and, for each
\* entry, its name and its fields (blob ids, sizes and epochs have one width).
RECURSIVE FilesLen(_)
FilesLen(files) ==
  IF files = {} THEN 0
  ELSE LET e == CHOOSE f \in files : TRUE
       IN Len(e.Name) + 1 + FilesLen(files \ {e})
DocLen(d) == IF ~d.exists \/ d = Truncated THEN 0 ELSE 1 + FilesLen(d.Files)

\* f.Write(data) at offset 0 of a file that holds old: the new bytes replace
\* the file when they are at least as long, else the tail of old stays behind
\* them and the file is the JSON of no index.
WriteAt0(old, data) == IF DocLen(data) >= DocLen(old) THEN data ELSE TornDoc(old.Files)

IdleWorker == [pc |-> "recv", job |-> NoJob, result |-> NoResult, data |-> MissingDoc, late |-> FALSE]

EmptyProgress ==
  [TotalFiles |-> 0, ProcessedFiles |-> 0, TotalBytes |-> 0, ProcessedBytes |-> 0,
   FailedFiles |-> 0, Results |-> <<>>]

\* NewSimpleFs + NewTransferManager (+ SetDryRun): the state a transfer command
\* starts from. The in-memory index is empty; the bucket, the flags and the
\* requested concurrency are the inputs.
Init ==
  /\ phase = "init"
  /\ listing \in Listings
  /\ \E c \in ConcurrencyInputs : concurrency = ClampConcurrency(c)
  /\ dryRun \in BOOLEAN
  /\ encrypt \in BOOLEAN
  /\ batchErr = FALSE
  /\ jobChan = <<>>
  /\ semaphore = 0
  /\ cancelled = FALSE
  /\ progress = EmptyProgress
  /\ wk = [w \in Workers |-> IdleWorker]
  /\ index = {}
  /\ indexMu = 0
  /\ disk = MissingDoc
  /\ writable \in BOOLEAN
  /\ rcloneDoc = MissingDoc
  /\ handed = <<>>
  /\ response = <<>>
  /\ failedKeys = {}
  /\ traffic = NoTraffic
  /\ lastOp = NoOp
  /\ retr = IdleRetrieve
  /\ call = NoCall

\* The state of the client and helper calls, which no transfer touches.
libVars == << retr, call >>
cmdVars == << rcloneDoc, handed, response, lastOp, libVars >>
fsVars == << index, indexMu, disk, writable, cmdVars, failedKeys, traffic >>
poolVars == << jobChan, semaphore, wk >>
cfgVars == << listing, concurrency, dryRun, encrypt >>

\* ------------------------------------------------ TransferBatch, the caller
\* A batch that goes on after the listing has failed.
AfterListErrorGoOn == "init"

\* return nil, fmt.Errorf("failed to list objects: %w", err)
AfterListError == "done"

\* ListObjects fails: the error is returned, no job is created.
ListFail ==
  /\ phase = "init"
  /\ ~batchErr
  /\ phase' = AfterListError
  /\ batchErr' = TRUE
  /\ UNCHANGED << cfgVars, poolVars, cancelled, progress, fsVars >>

\* No object matches: an empty progress is returned.
ListEmpty ==
  /\ phase = "init"
  /\ listing = <<>>
  /\ phase' = "done"
  /\ progress' = EmptyProgress
  /\ UNCHANGED << cfgVars, batchErr, poolVars, cancelled, fsVars >>

\* A dry run that reports the jobs as not yet processed.
DryRunProgressUnprocessed(jobs) ==
  [EmptyProgress EXCEPT !.TotalFiles = Len(jobs), !.TotalBytes = SumSizes(jobs)]

\* The progress a dry run returns: every job counted as processed.
DryRunProgress(jobs) ==
  [TotalFiles |-> Len(jobs), TotalBytes |-> SumSizes(jobs),
   ProcessedFiles |-> Len(jobs), ProcessedBytes |-> SumSizes(jobs),
   FailedFiles |-> 0, Results |-> <<>>]

\* Dry run: the costs are printed, nothing is transferred.
DryRunBatch ==
  /\ phase = "init"
  /\ listing # <<>>
  /\ dryRun
  /\ phase' = "done"
  /\ progress' = DryRunProgress(MakeJobs(listing, encrypt))
  /\ UNCHANGED << cfgVars, batchErr, poolVars, cancelled, fsVars >>

\* The jobs are pushed onto the channel, the channel is closed and
\* tm.concurrency workers are started.
StartWorkers ==
  /\ phase = "init"
  /\ listing # <<>>
  /\ ~dryRun
  /\ phase' = "executing"
  /\ progress' = [EmptyProgress EXCEPT !.TotalFiles = Len(listing), !.TotalBytes = SumSizes(listing)]
  /\ jobChan' = MakeJobs(listing, encrypt)
  /\ wk' = [w \in Workers |-> IdleWorker]
  /\ UNCHANGED << cfgVars, batchErr, semaphore, cancelled, fsVars >>

\* The caller's context is cancelled while the batch runs.
Cancel ==
  /\ phase = "executing"
  /\ ~cancelled
  /\ cancelled' = TRUE
  /\ UNCHANGED << phase, cfgVars, batchErr, poolVars, progress, fsVars >>

\* wg.Wait() returns when every worker has returned.
Wait ==
  /\ phase = "executing"
  /\ \A w \in Workers : wk[w].pc = "exited"
  /\ phase' = "done"
  /\ UNCHANGED << cfgVars, batchErr, poolVars, cancelled, progress, fsVars >>

\* ------------------------------------------------------- a worker goroutine
Running(w) == phase = "executing" /\ w \in Workers

\* A receive that leaves the job in the channel.
DequeueNothing(q) == q

\* for job := range jobChan: the next job, or the end of the loop once the
\* closed channel is drained.
Dequeue(q) == Tail(q)

Recv(w) ==
  /\ Running(w)
  /\ wk[w].pc = "recv"
  /\ IF jobChan = <<>>
     THEN /\ wk' = [wk EXCEPT ![w].pc = "exited"]
          /\ UNCHANGED jobChan
     ELSE /\ wk' = [wk EXCEPT ![w].pc = "select", ![w].job = Head(jobChan), ![w].late = cancelled]
          /\ jobChan' = Dequeue(jobChan)
  /\ UNCHANGED << phase, cfgVars, batchErr, semaphore, cancelled, progress, fsVars >>

\* A select whose Done case is ready whether or not the context is cancelled.
CtxDoneAlways == TRUE

\* case <-ctx.Done(): ready once the context is cancelled.
CtxDone == cancelled

\* select, case <-ctx.Done(): the worker returns; the job it holds is dropped.
SelectDone(w) ==
  /\ Running(w)
  /\ wk[w].pc = "select"
  /\ CtxDone
  /\ wk' = [wk EXCEPT ![w].pc = "exited", ![w].job = NoJob, ![w].late = FALSE]
  /\ UNCHANGED << phase, cfgVars, batchErr, jobChan, semaphore, cancelled, progress, fsVars >>

\* select, case semaphore <- struct{}{}: ready while a permit is free. With
\* both cases ready Go picks either.
SelectAcquire(w) ==
  /\ Running(w)
  /\ wk[w].pc = "select"
  /\ semaphore < concurrency
  /\ semaphore' = semaphore + 1
  /\ wk' = [wk EXCEPT ![w].pc = "transfer", ![w].late = FALSE]
  /\ UNCHANGED << phase, cfgVars, batchErr, jobChan, cancelled, progress, fsVars >>

\* A worker that returns when an item fails.
AfterTransferAbort(ok) == IF ok THEN "ilock" ELSE "exited"

\* Where transferSingleFile goes on after the download and the store: to the
\* index update, or (an early return with the failed result) back to the
\* worker loop, which counts the result.
AfterTransfer(ok) == IF ok THEN "ilock" ELSE "count"

\* The name the item is indexed under.
Sealed(name, enabled) == IF enabled THEN Append(name, ".sealed") ELSE name

\* How fetching the object goes: DownloadObject fails ("download"), the body
\* breaks while it is read ("stream"), or all bytes arrive ("ok"). The step
\* that reports a broken body is io.Copy for a buffered object and
\* io.ReadAll for a streamed one; reading the buffer itself cannot fail.
FetchError(job, fetched) ==
  IF fetched = "download" THEN "download"
  ELSE IF fetched = "ok" THEN ""
  ELSE IF job.Size < BufferLimit THEN "buffer"
  ELSE IF job.Encrypt THEN "read for encryption"
  ELSE "read"

\* transferSingleFile up to the store: DownloadObject, buffering, the
\* encryption suffix (on the job's name, not on the result's), StoreBlob.
\* Yields the result and the name the item is indexed under.
TransferOutcome(job, fetched, answer) ==
  LET result == [NoResult EXCEPT !.SourceKey = job.Key, !.TargetName = job.TargetName,
                                 !.Size = job.Size]
      uploadResp == StoreBlob(answer, job.Size)
  IN IF FetchError(job, fetched) # ""
     THEN [result |-> [result EXCEPT !.Error = FetchError(job, fetched)],
           TargetName |-> job.TargetName]
     ELSE IF ~uploadResp.ok
     THEN [result |-> [result EXCEPT !.Error = "upload"],
           TargetName |-> Sealed(job.TargetName, job.Encrypt)]
     ELSE [result |-> [result EXCEPT !.BlobID = uploadResp.BlobID, !.Success = TRUE,
                                     !.ExpiryEpoch = uploadResp.EndEpoch],
           TargetName |-> Sealed(job.TargetName, job.Encrypt)]

\* DownloadObject takes the batch context: on a cancelled context it fails.
Downloads(ctxDone) == IF ctxDone THEN {"download"} ELSE {"download", "stream", "ok"}

\* The calls one transferSingleFile makes: DownloadObject once ...
DownloadCalls(fetched) == 1

\* A transfer that calls StoreBlob again after a failed PUT.
StoreCallsRetried(job, fetched, answer) ==
  IF FetchError(job, fetched) # "" THEN 0 ELSE IF answer.http THEN 1 ELSE 2

\* ... and StoreBlob once when the bytes arrived, else not at all.
StoreCalls(job, fetched, answer) == IF FetchError(job, fetched) # "" THEN 0 ELSE 1
\* StoreBlob: one HTTPClient.Do per call.
HttpWrites(answer) == 1

\* n more copies of e in a bag.
AddCopies(bag, e, n) == IF n = 0 THEN bag ELSE bag (+) [x \in {e} |-> n]

\* The traffic after one transferSingleFile of the job.
Called(t, job, fetched, answer) ==
  [downloads |-> AddCopies(t.downloads, job.Key, DownloadCalls(fetched)),
   stores |-> AddCopies(t.stores, job.Key, StoreCalls(job, fetched, answer)),
   puts |-> AddCopies(t.puts, job.Key, StoreCalls(job, fetched, answer) * HttpWrites(answer))]

\* The ways one transferSingleFile of the job may go, up to the store: the
\* result, the name to index it under and the traffic afterwards.
Transfers(job, t, ctxDone) ==
  { [out |-> TransferOutcome(job, fetched, answer), traffic |-> Called(t, job, fetched, answer)] :
      fetched \in Downloads(ctxDone), answer \in PublisherAnswers(job.Key) }

Transfer(w) ==
  /\ Running(w)
  /\ wk[w].pc = "transfer"
  /\ \E done \in Transfers(wk[w].job, traffic, cancelled) :
       /\ wk' = [wk EXCEPT ![w].pc = AfterTransfer(done.out.result.Success),
                           ![w].job.TargetName = done.out.TargetName,
                           ![w].result = done.out.result]
       /\ failedKeys' = IF done.out.result.Success THEN failedKeys
                                                   ELSE failedKeys \cup {wk[w].job.Key}
       /\ traffic' = done.traffic
  /\ UNCHANGED << phase, cfgVars, batchErr, jobChan, semaphore, cancelled, progress,
                  index, indexMu, disk, writable, cmdVars >>

\* fs.index.Files[name] = &SimpleFileEntry{...}
Put(files, name, blobID, size, expiryEpoch) ==
  { e \in files : e.Name # name }
    \cup { [Name |-> name, BlobID |-> blobID, Size |-> size, ExpiryEpoch |-> expiryEpoch] }

\* tm.simpleFS.indexMu.Lock()
IndexLock(w) ==
  /\ Running(w)
  /\ wk[w].pc = "ilock"
  /\ indexMu = 0
  /\ indexMu' = w
  /\ wk' = [wk EXCEPT ![w].pc = "iput"]
  /\ UNCHANGED << phase, cfgVars, batchErr, jobChan, semaphore, cancelled, progress, index, disk, writable, cmdVars, failedKeys, traffic >>

\* The map assignment and indexMu.Unlock().
IndexPut(w) ==
  /\ Running(w)
  /\ wk[w].pc = "iput"
  /\ indexMu = w
  /\ index' = Put(index, wk[w].job.TargetName, wk[w].result.BlobID, wk[w].job.Size,
                  wk[w].result.ExpiryEpoch)
  /\ indexMu' = 0
  /\ wk' = [wk EXCEPT ![w].pc = "marshal"]
  /\ UNCHANGED << phase, cfgVars, batchErr, jobChan, semaphore, cancelled, progress, disk, writable, cmdVars, failedKeys, traffic >>

\* An RLock that is never granted, as when SaveIndex is called by the
\* goroutine that still holds the write lock.
CanRLockNever(mu) == FALSE

\* indexMu.RLock() is granted while no writer holds the lock.
CanRLock(mu) == mu = 0

\* json.MarshalIndent(fs.index): the whole map; read while a writer is inside
\* its critical section it is a data race and the bytes may be torn.
MarshalIndent(files, mu) == IF mu = 0 THEN Doc(files) ELSE TornDoc(files)

\* SaveIndex, first half: RLock, MarshalIndent, RUnlock.
Marshal(w) ==
  /\ Running(w)
  /\ wk[w].pc = "marshal"
  /\ CanRLock(indexMu)
  /\ wk' = [wk EXCEPT ![w].pc = "open", ![w].data = MarshalIndent(index, indexMu)]
  /\ UNCHANGED << phase, cfgVars, batchErr, jobChan, semaphore, cancelled, progress, fsVars >>

\* A transfer that gives up when the index cannot be saved.
AfterSaveErrorReturn == "exited"

\* tm.simpleFS.SaveIndex(): the error is dropped and transferSingleFile goes
\* on to bar.Add64 and the return of its result.
AfterSaveError == "count"

\* SaveIndex, second half, outside the lock: os.WriteFile opens the file with
\* O_TRUNC, which fails when the file cannot be written ...
OpenFile(w) ==
  /\ Running(w)
  /\ wk[w].pc = "open"
  /\ IF writable
       THEN /\ disk' = Truncated
            /\ wk' = [wk EXCEPT ![w].pc = "write"]
       ELSE /\ disk' = disk
            /\ wk' = [wk EXCEPT ![w].pc = AfterSaveError, ![w].data = MissingDoc]
  /\ UNCHANGED << phase, cfgVars, batchErr, jobChan, semaphore, cancelled, progress, index, indexMu, writable, cmdVars, failedKeys, traffic >>

\* ... and then writes the bytes through its own descriptor and closes it.
\* SaveIndex's error is dropped by transferSingleFile. Then bar.Add64 and the
\* return of the result.
WriteFile(w) ==
  /\ Running(w)
  /\ wk[w].pc = "write"
  /\ disk' = WriteAt0(disk, wk[w].data)
  /\ wk' = [wk EXCEPT ![w].pc = "count", ![w].data = MissingDoc]
  /\ UNCHANGED << phase, cfgVars, batchErr, jobChan, semaphore, cancelled, progress, index, indexMu, writable, cmdVars, failedKeys, traffic >>

\* atomic.AddInt32(&progress.ProcessedFiles, 1)
AddProcessed(w) ==
  /\ Running(w)
  /\ wk[w].pc = "count"
  /\ progress' = [progress EXCEPT !.ProcessedFiles = @ + 1]
  /\ wk' = [wk EXCEPT ![w].pc = "outcome"]
  /\ UNCHANGED << phase, cfgVars, batchErr, jobChan, semaphore, cancelled, fsVars >>

\* A worker that forgets to count a failed item.
FailedDeltaNever(success) == 0

\* What a result adds to FailedFiles ...
FailedDelta(success) == IF success THEN 0 ELSE 1

\* A worker that adds the size of a failed item as well.
BytesDeltaAlways(success, size) == size

\* ... and to ProcessedBytes.
BytesDelta(success, size) == IF success THEN size ELSE 0

\* if result.Success { AddInt64(ProcessedBytes) } else { AddInt32(FailedFiles) }
AddOutcome(w) ==
  /\ Running(w)
  /\ wk[w].pc = "outcome"
  /\ progress' = [progress EXCEPT
                    !.FailedFiles = @ + FailedDelta(wk[w].result.Success),
                    !.ProcessedBytes = @ + BytesDelta(wk[w].result.Success, wk[w].job.Size)]
  /\ wk' = [wk EXCEPT ![w].pc = "append"]
  /\ UNCHANGED << phase, cfgVars, batchErr, jobChan, semaphore, cancelled, fsVars >>

\* progress.mu.Lock(); Results = append(Results, result); progress.mu.Unlock()
AppendResult(w) ==
  /\ Running(w)
  /\ wk[w].pc = "append"
  /\ progress' = [progress EXCEPT !.Results = Append(@, wk[w].result)]
  /\ wk' = [wk EXCEPT ![w].pc = "release"]
  /\ UNCHANGED << phase, cfgVars, batchErr, jobChan, semaphore, cancelled, fsVars >>

\* <-semaphore, then the next iteration of the loop.
Release(w) ==
  /\ Running(w)
  /\ wk[w].pc = "release"
  /\ semaphore' = semaphore - 1
  /\ wk' = [wk EXCEPT ![w] = IdleWorker]
  /\ UNCHANGED << phase, cfgVars, batchErr, jobChan, cancelled, progress, fsVars >>

Worker(w) ==
  \/ Recv(w) \/ SelectDone(w) \/ SelectAcquire(w) \/ Transfer(w)
  \/ IndexLock(w) \/ IndexPut(w) \/ Marshal(w) \/ OpenFile(w) \/ WriteFile(w)
  \/ AddProcessed(w) \/ AddOutcome(w) \/ AppendResult(w) \/ Release(w)

Next ==
  \/ ListFail \/ ListEmpty \/ DryRunBatch \/ StartWorkers
  \/ Cancel \/ Wait
  \/ \E w \in Workers : Worker(w)

Spec == Init /\ [][Next]_vars

\* The batch under Go's scheduler: the goroutine of the caller and every
\* worker goroutine that can take a step eventually takes one, which
\* includes that every download and every store returns. The cancellation
\* of the context is up to the caller's environment and is not forced.
CallerStep == ListFail \/ ListEmpty \/ DryRunBatch \/ StartWorkers \/ Wait
Goroutines == UNION { 1..ClampConcurrency(c) : c \in ConcurrencyInputs }
Fairness == WF_vars(CallerStep) /\ \A w \in Goroutines : WF_vars(Worker(w))

\* Largest number of listed objects of the batches whose termination is
\* checked: with one or two workers it gives fewer jobs than workers, as
\* many, and more.
MaxLiveJobs == 2
InitLive == Init /\ Len(listing) <= MaxLiveJobs

SpecLive == InitLive /\ [][Next]_vars /\ Fairness


\* ===================================================== sequential callers
\* The operations a single process runs one after the other on its SimpleFs
\* and on the CLI's index document: SimpleFs.Upload, SimpleFs.LoadIndex,
\* TransferManager.TransferSingle, and the API server's handlers.

batchVars == << phase, listing, concurrency, encrypt, batchErr, jobChan, semaphore,
                cancelled, progress, wk, indexMu, failedKeys, traffic, libVars >>

\* The objects of the bucket a request may name.
CmdObjects == { AllObjects[1], AllObjects[3] }

\* How the transfer of one key may go: the metadata lookup fails, the
\* download fails, the body breaks, the store fails, or the blob is stored.
Stored(key) == Http200(Envelope(Payload(BlobOf(key), ""), Absent, 0))
Outcomes(key) ==
  { [found |-> FALSE, fetched |-> "download", answer |-> HttpError],
    [found |-> TRUE, fetched |-> "download", answer |-> HttpError],
    [found |-> TRUE, fetched |-> "stream", answer |-> HttpError],
    [found |-> TRUE, fetched |-> "ok", answer |-> HttpError],
    [found |-> TRUE, fetched |-> "ok", answer |-> Stored(key)] }

\* A transfer that indexes and saves the item whether or not it was stored.
transferSingleFileIndexesFailures(job, o, files, doc, canWrite) ==
  LET out == TransferOutcome(job, o.fetched, o.answer)
      put == Put(files, out.TargetName, out.result.BlobID, job.Size, out.result.ExpiryEpoch)
  IN [result |-> out.result,
      index |-> put,
      disk |-> IF canWrite THEN MarshalIndent(put, 0) ELSE doc,
      err |-> ""]

\* transferSingleFile run by one goroutine alone: the store, the index put
\* under the write lock, SaveIndex (its error dropped).
transferSingleFile(job, o, files, doc, canWrite) ==
  LET out == TransferOutcome(job, o.fetched, o.answer)
      put == IF out.result.Success
             THEN Put(files, out.TargetName, out.result.BlobID, job.Size, out.result.ExpiryEpoch)
             ELSE files
  IN [result |-> out.result,
      index |-> put,
      disk |-> IF out.result.Success /\ canWrite THEN MarshalIndent(put, 0) ELSE doc,
      err |-> ""]

\* TransferSingle: the metadata lookup, the job (no encryption settings),
\* the dry-run result or the transfer. err is the returned error.
TransferSingle(obj, dry, o, files, doc, canWrite) ==
  LET job == [Key |-> obj.Key, Size |-> obj.Size, TargetName |-> Base(obj.Key), Encrypt |-> FALSE]
  IN IF ~o.found
     THEN [result |-> NoResult, index |-> files, disk |-> doc, err |-> "metadata"]
     ELSE IF dry
     THEN [result |-> [NoResult EXCEPT !.SourceKey = obj.Key, !.TargetName = job.TargetName,
                                       !.Size = obj.Size, !.Success = TRUE],
           index |-> files, disk |-> doc, err |-> ""]
     ELSE transferSingleFile(job, o, files, doc, canWrite)

\* The environment: the home directory becomes read-only, or writable again.
SetWritable ==
  /\ \E b \in BOOLEAN : b # writable /\ writable' = b
  /\ handed' = <<>>
  /\ response' = <<>>
  /\ lastOp' = NoOp
  /\ UNCHANGED << batchVars, dryRun, index, disk, rcloneDoc >>

\* tm.SetDryRun
SetDryRun ==
  /\ \E b \in BOOLEAN : b # dryRun /\ dryRun' = b
  /\ handed' = <<>>
  /\ response' = <<>>
  /\ lastOp' = [op |-> "SetDryRun", err |-> ""]
  /\ UNCHANGED << batchVars, index, disk, writable, rcloneDoc >>

\* A caller of TransferSingle on the process's transfer manager.
CallTransferSingle ==
  /\ \E obj \in CmdObjects : \E o \in Outcomes(obj.Key) :
       LET r == TransferSingle(obj, dryRun, o, index, disk, writable)
       IN /\ handed' = IF r.err = "" THEN <<r.result>> ELSE <<>>
          /\ lastOp' = [op |-> "TransferSingle", err |-> r.err]
          /\ index' = r.index
          /\ disk' = r.disk
  /\ response' = <<>>
  /\ UNCHANGED << batchVars, dryRun, writable, rcloneDoc >>

\* SimpleFs.Upload: StoreBlob, the index put, SaveIndex (a failure is only logged).
UploadNames == { <<"u">> }

Upload ==
  /\ \E name \in UploadNames : \E answer \in PublisherAnswers(name) :
       LET resp == StoreBlob(answer, 1)
           put == Put(index, name, resp.BlobID, 1, resp.EndEpoch)
       IN /\ IF ~resp.ok
             THEN UNCHANGED << index, disk >>
             ELSE /\ index' = put
                  /\ disk' = IF writable THEN MarshalIndent(put, 0) ELSE disk
          /\ lastOp' = [op |-> "Upload", err |-> IF resp.ok THEN "" ELSE "upload",
                        blobId |-> resp.BlobID]
  /\ handed' = <<>>
  /\ response' = <<>>
  /\ UNCHANGED << batchVars, dryRun, writable, rcloneDoc >>

\* json.Unmarshal(data, &fs.index) on bytes that are a JSON index: the
\* decoder reuses the map fs.index.Files, so that the entries of the
\* document replace those of the same name and the others stay.
Unmarshal(files, doc) ==
  doc.Files \cup { e \in files : \A d \in doc.Files : d.Name # e.Name }

\* A LoadIndex that keeps the entries it has when the document is missing.
LoadedIndexKept(files, doc) ==
  IF ~doc.exists \/ doc.torn THEN [index |-> files, err |-> ""]
  ELSE [index |-> Unmarshal(files, doc), err |-> ""]

\* SimpleFs.LoadIndex: a missing document gives a new, empty index and no
\* error; bytes that are not JSON give the error of json.Unmarshal, which
\* has checked them before it touches the index.
LoadedIndex(files, doc) ==
  IF ~doc.exists THEN [index |-> {}, err |-> ""]
  ELSE IF doc.torn THEN [index |-> files, err |-> "unmarshal"]
  ELSE [index |-> Unmarshal(files, doc), err |-> ""]

LoadIndex ==
  /\ index' = LoadedIndex(index, disk).index
  /\ lastOp' = [op |-> "LoadIndex", err |-> LoadedIndex(index, disk).err]
  /\ handed' = <<>>
  /\ response' = <<>>
  /\ UNCHANGED << batchVars, dryRun, disk, writable, rcloneDoc >>

\* loadIndex of the CLI: a missing or unparsable document gives an empty index.
loadIndex(doc) == IF ~doc.exists \/ doc.torn THEN {} ELSE doc.Files

\* handleUpdateIndex (POST /api/index/update): load, put, save.
UpdateNames == { <<"x">> }
UpdateBlobIDs == { "", "B1" }

HandleUpdateIndex ==
  /\ \E fileName \in UpdateNames, blobId \in UpdateBlobIDs :
       rcloneDoc' = IF writable THEN Doc(Put(loadIndex(rcloneDoc), fileName, blobId, 1, 0))
                                ELSE rcloneDoc
  /\ lastOp' = [op |-> "handleUpdateIndex", err |-> ""]
  /\ handed' = <<>>
  /\ response' = <<>>
  /\ UNCHANGED << batchVars, dryRun, index, disk, writable >>

\* The entry of the POST transfer response for one key.
ResponseEntry(key, r) ==
  IF r.err # ""
  THEN [key |-> key, success |-> FALSE, blobId |-> "", error |-> r.err]
  ELSE [key |-> key, success |-> r.result.Success, blobId |-> r.result.BlobID, error |-> ""]

\* handleS3Transfer, the loop over req.Keys on a fresh SimpleFs and a
\* transfer manager whose dry-run flag is never set. req.Encrypt is decoded
\* and never read: TransferSingle builds its job without encryption settings.
RECURSIVE TransferKeys(_, _, _, _, _)
TransferKeys(objs, outs, files, doc, canWrite) ==
  IF objs = <<>> THEN [entries |-> <<>>, disk |-> doc]
  ELSE LET r == TransferSingle(Head(objs), FALSE, Head(outs), files, doc, canWrite)
           rest == TransferKeys(Tail(objs), Tail(outs), r.index, r.disk, canWrite)
       IN [entries |-> <<ResponseEntry(Head(objs).Key, r)>> \o rest.entries, disk |-> rest.disk]

Requests == UNION { [1..n -> CmdObjects] : n \in 1..MaxReqKeys }

\* The ways the transfers of the keys of a request may go, key by key.
RECURSIVE OutcomeSeqs(_)
OutcomeSeqs(objs) ==
  IF objs = <<>> THEN { <<>> }
  ELSE { <<o>> \o rest : o \in Outcomes(Head(objs).Key), rest \in OutcomeSeqs(Tail(objs)) }

HandleS3Transfer ==
  /\ \E objs \in Requests :
       \E outs \in OutcomeSeqs(objs) :
         LET simpleFS == {}
             done == TransferKeys(objs, outs, simpleFS, disk, writable)
         IN /\ response' = done.entries
            /\ disk' = done.disk
            /\ \E reqEncrypt \in BOOLEAN :
                 lastOp' = [op |-> "handleS3Transfer", err |-> "",
                            keys |-> [i \in 1..Len(objs) |-> objs[i].Key],
                            encrypt |-> reqEncrypt]
  /\ handed' = <<>>
  /\ UNCHANGED << batchVars, dryRun, index, writable, rcloneDoc >>

\* The environment: an index document is damaged, as by a save that was
\* cut short or by two saves that wrote at once.
CorruptDocument ==
  /\ \/ /\ disk.exists /\ ~disk.torn
        /\ disk' = TornDoc(disk.Files)
        /\ UNCHANGED rcloneDoc
     \/ /\ rcloneDoc.exists /\ ~rcloneDoc.torn
        /\ rcloneDoc' = TornDoc(rcloneDoc.Files)
        /\ UNCHANGED disk
  /\ handed' = <<>>
  /\ response' = <<>>
  /\ lastOp' = NoOp
  /\ UNCHANGED << batchVars, dryRun, index, writable >>

\* The process after NewSimpleFs and NewTransferManager, no batch running.
Quiet ==
  /\ phase = "idle"
  /\ listing = <<>>
  /\ concurrency = ClampConcurrency(1)
  /\ dryRun = FALSE
  /\ encrypt = FALSE
  /\ batchErr = FALSE
  /\ jobChan = <<>>
  /\ semaphore = 0
  /\ cancelled = FALSE
  /\ progress = EmptyProgress
  /\ wk = [w \in Workers |-> IdleWorker]
  /\ index = {}
  /\ indexMu = 0
  /\ disk = MissingDoc
  /\ writable = TRUE
  /\ rcloneDoc = MissingDoc
  /\ handed = <<>>
  /\ response = <<>>
  /\ failedKeys = {}
  /\ traffic = NoTraffic
  /\ lastOp = NoOp

InitCmd ==
  /\ Quiet
  /\ retr = IdleRetrieve
  /\ call = NoCall

NextCmd ==
  \/ SetWritable \/ SetDryRun \/ CallTransferSingle \/ Upload \/ LoadIndex
  \/ HandleUpdateIndex \/ HandleS3Transfer

SpecCmd == InitCmd /\ [][NextCmd]_vars

\* The life of the index documents alone: uploads, reloads, updates through
\* the API server, and damage to the documents.
NextIndex ==
  \/ SetWritable \/ Upload \/ LoadIndex \/ HandleUpdateIndex \/ CorruptDocument

SpecIndex == InitCmd /\ [][NextIndex]_vars

\* A process that runs a batch, or else calls Upload and TransferSingle one
\* after the other, while its index path may be read-only.
InitSave == Init \/ InitCmd

NextSave ==
  \/ Next
  \/ phase = "idle" /\ SetWritable
  \/ phase = "idle" /\ Upload
  \/ phase = "idle" /\ CallTransferSingle

SpecSave == InitSave /\ [][NextSave]_vars

\* ========================================================= RetrieveBlob
\* The state of the transfer commands, which the client calls leave alone.
progVars == << phase, listing, concurrency, dryRun, encrypt, batchErr, jobChan, semaphore,
               cancelled, progress, wk, index, indexMu, disk, writable, rcloneDoc, handed,
               response, failedKeys, traffic, lastOp >>

\* for attempt := 0; attempt < 3; attempt++
MaxAttempts == 3

\* Error messages are sequences of word pieces, so that strings.Contains and
\* strings.ToLower have something to work on. What http.Client.Get returns:
ConnRefused == << "dial", "tcp:", "connection", "refused" >>
ConnReset == << "read", "tcp:", "connection", "reset", "by", "peer" >>
ClientTimeout == << "Client.", "Timeout", "exceeded" >>
DialTimeout == << "dial", "tcp:", "i/o", "timeout" >>
DnsTemporary == << "lookup:", "Temporary", "failure", "in", "name", "resolution" >>
NoSuchHost == << "lookup:", "no", "such", "host" >>
NetUnreachable == << "connect:", "network", "is", "unreachable" >>
BadCertificate == << "x509:", "certificate", "signed", "by", "unknown", "authority" >>
BadScheme == << "unsupported", "protocol", "scheme" >>
TransportErrors ==
  { ConnRefused, ConnReset, ClientTimeout, DialTimeout, DnsTemporary, NoSuchHost,
    NetUnreachable, BadCertificate, BadScheme }

\* What io.ReadAll returns when the body breaks off.
UnexpectedEOF == << "unexpected", "EOF" >>

\* strings.ToLower, piece by piece.
ToLower(piece) ==
  CASE piece = "Client." -> "client."
    [] piece = "Timeout" -> "timeout"
    [] piece = "Temporary" -> "temporary"
    [] piece = "EOF" -> "eof"
    [] OTHER -> piece
Lower(msg) == [i \in 1..Len(msg) |-> ToLower(msg[i])]

\* strings.Contains
Contains(s, substr) ==
  \E i \in 0..(Len(s) - Len(substr)) : SubSeq(s, i + 1, i + Len(substr)) = substr

retryablePatterns ==
  { << "connection", "refused" >>, << "connection", "reset" >>, << "timeout" >>,
    << "temporary", "failure" >>, << "no", "such", "host" >>,
    << "network", "is", "unreachable" >> }

\* A client that retries after every transport error.
isRetryableAlways(err) == err # <<>>

\* isRetryableError: nil is not retryable; else the lower-cased message
\* contains one of the patterns.
isRetryableError(err) ==
  /\ err # <<>>
  /\ \E pattern \in retryablePatterns : Contains(Lower(err), pattern)

\* A client that retries on 503 only.
RetryableStatusOnly503(code) == code = 503

\* resp.StatusCode == http.StatusTooManyRequests || ... == http.StatusServiceUnavailable
RetryableStatus(code) == code = 429 \/ code = 503

\* One answer to c.HTTPClient.Get: a transport error, or a response with its
\* status and body; readable tells whether io.ReadAll gets the whole body.
GetError(msg) == [kind |-> "error", msg |-> msg, status |-> 0, body |-> "", readable |-> FALSE]
GetResponse(status, body, readable) ==
  [kind |-> "response", msg |-> <<>>, status |-> status, body |-> body, readable |-> readable]
Answers ==
  { GetError(m) : m \in TransportErrors }
    \cup { GetResponse(200, "D1", TRUE), GetResponse(200, "D2", TRUE),
           GetResponse(200, "D1", FALSE), GetResponse(404, "E4", TRUE),
           GetResponse(429, "E2", TRUE), GetResponse(500, "E5", TRUE),
           GetResponse(503, "E3", TRUE) }

\* fmt.Errorf("<prefix>: %w", err)
Errorf(prefix, err) == << prefix >> \o err
\* fmt.Errorf("status %d: %s", resp.StatusCode, body)
StatusError(code, body) == << "status", ToString(code), body >>

\* A client that remembers the first transient error instead of the latest.
KeepFirstErr(lastErr, err) == IF lastErr = <<>> THEN err ELSE lastErr

\* lastErr = err
SetLastErr(lastErr, err) == err

\* What the servers will answer to the attempts of this call, in order.
Scripts == [1..MaxAttempts -> Answers]

\* RetrieveBlob is called; the servers' answers to come are the input.
RetrieveStart ==
  /\ retr.pc = "idle"
  /\ \E script \in Scripts : retr' = [IdleRetrieve EXCEPT !.pc = "loop", !.script = script]
  /\ UNCHANGED << progVars, call >>

\* return nil, err / return data, nil
Return(r, data, err) == [r EXCEPT !.pc = "returned", !.data = data, !.err = err]

\* continue: the next attempt (after the backoff sleep), or the end of the
\* loop and the error that wraps lastErr.
Continue(r, lastErr) ==
  IF r.attempt + 1 < MaxAttempts
  THEN [r EXCEPT !.attempt = @ + 1, !.lastErr = lastErr]
  ELSE IF lastErr # <<>>
  THEN Return([r EXCEPT !.attempt = @ + 1, !.lastErr = lastErr], "",
              Errorf("failed after 3 attempts:", lastErr))
  ELSE Return([r EXCEPT !.attempt = @ + 1], "", << "failed to retrieve blob" >>)

\* One iteration of the loop: the GET and what the code makes of its answer.
Attempt(r, answer) ==
  LET made == [r EXCEPT !.log = Append(@, answer)]
  IN IF answer.kind = "error"
     THEN IF isRetryableError(answer.msg)
          THEN Continue(made, SetLastErr(r.lastErr, answer.msg))
          ELSE Return(made, "", Errorf("retrieving blob:", answer.msg))
     ELSE IF RetryableStatus(answer.status)
     THEN Continue(made, SetLastErr(r.lastErr, StatusError(answer.status, answer.body)))
     ELSE IF answer.status # 200
     THEN Return(made, "", << "retrieval failed with status", ToString(answer.status), answer.body >>)
     ELSE IF ~answer.readable
     THEN Return(made, "", Errorf("reading blob data:", UnexpectedEOF))
     ELSE Return(made, answer.body, <<>>)

RetrieveAttempt ==
  /\ retr.pc = "loop"
  /\ retr.attempt < MaxAttempts
  /\ retr' = Attempt(retr, retr.script[retr.attempt + 1])
  /\ UNCHANGED << progVars, call >>

InitRetrieve ==
  /\ Quiet
  /\ retr = IdleRetrieve
  /\ call = NoCall

NextRetrieve == RetrieveStart \/ RetrieveAttempt

SpecRetrieve == InitRetrieve /\ [][NextRetrieve]_vars

\* ------------------------------------------------------- the source filter
\* Keys and patterns are sequences of symbols; "*" is the wildcard symbol.
HasPrefix(s, prefix) == Len(prefix) <= Len(s) /\ SubSeq(s, 1, Len(prefix)) = prefix
HasSuffix(s, suffix) ==
  Len(suffix) <= Len(s) /\ SubSeq(s, Len(s) - Len(suffix) + 1, Len(s)) = suffix

\* strings.Index: where substr first starts in s, counted from 0, or -1.
Index(s, substr) ==
  LET at == { i \in 0..(Len(s) - Len(substr)) : SubSeq(s, i + 1, i + Len(substr)) = substr }
  IN IF at = {} THEN -1 ELSE CHOOSE i \in at : \A j \in at : i <= j

\* strings.Split(pattern, "*")
RECURSIVE Split(_)
Split(pattern) ==
  LET star == Index(pattern, << "*" >>)
  IN IF star = -1 THEN << pattern >>
     ELSE << SubSeq(pattern, 1, star) >> \o Split(SubSeq(pattern, star + 2, Len(pattern)))

\* The loop of matchPattern over three or more parts, from part i (counted
\* from 1) with the text consumed up to currentIndex, and the check of the
\* last part after it.
RECURSIVE MatchParts(_, _, _, _)
MatchParts(text, parts, i, currentIndex) ==
  IF i > Len(parts)
  THEN parts[Len(parts)] # <<>> => HasSuffix(text, parts[Len(parts)])
  ELSE IF parts[i] = <<>>
  THEN MatchParts(text, parts, i + 1, currentIndex)
  ELSE LET idx == Index(SubSeq(text, currentIndex + 1, Len(text)), parts[i])
       IN IF idx = -1 THEN FALSE
          ELSE IF i = 1 /\ idx # 0 THEN FALSE
          ELSE MatchParts(text, parts, i + 1, currentIndex + idx + Len(parts[i]))

matchPattern(text, pattern) ==
  IF Index(pattern, << "*" >>) # -1
  THEN LET parts == Split(pattern)
       IN IF Len(parts) = 1 THEN text = pattern
          ELSE IF Len(parts) = 2
          THEN /\ parts[1] # <<>> => HasPrefix(text, parts[1])
               /\ parts[2] # <<>> => HasSuffix(text, parts[2])
          ELSE MatchParts(text, parts, 1, 0)
  ELSE text = pattern

\* A nil *time.Time, and a nil *S3TransferFilter.
NoTime == -1
NilFilter ==
  [nil |-> TRUE, Prefix |-> <<>>, Include |-> <<>>, Exclude |-> <<>>, MinSize |-> 0,
   MaxSize |-> 0, ModifiedAfter |-> NoTime, ModifiedBefore |-> NoTime]

\* One of the patterns of the list matches the key.
AnyMatch(key, patterns) == \E i \in 1..Len(patterns) : matchPattern(key, patterns[i])

\* A filter that looks at its include list first and accepts what it matches.
IncludeBeforeExclude(obj, filter) ==
  IF filter.nil THEN TRUE
  ELSE IF filter.MinSize > 0 /\ obj.Size < filter.MinSize THEN FALSE
  ELSE IF filter.MaxSize > 0 /\ obj.Size > filter.MaxSize THEN FALSE
  ELSE IF filter.ModifiedAfter # NoTime /\ obj.LastModified < filter.ModifiedAfter THEN FALSE
  ELSE IF filter.ModifiedBefore # NoTime /\ obj.LastModified > filter.ModifiedBefore THEN FALSE
  ELSE IF Len(filter.Include) > 0 /\ AnyMatch(obj.Key, filter.Include) THEN TRUE
  ELSE IF AnyMatch(obj.Key, filter.Exclude) THEN FALSE
  ELSE Len(filter.Include) = 0

shouldIncludeObject(obj, filter) ==
  IF filter.nil THEN TRUE
  ELSE IF filter.MinSize > 0 /\ obj.Size < filter.MinSize THEN FALSE
  ELSE IF filter.MaxSize > 0 /\ obj.Size > filter.MaxSize THEN FALSE
  ELSE IF filter.ModifiedAfter # NoTime /\ obj.LastModified < filter.ModifiedAfter THEN FALSE
  ELSE IF filter.ModifiedBefore # NoTime /\ obj.LastModified > filter.ModifiedBefore THEN FALSE
  ELSE IF AnyMatch(obj.Key, filter.Exclude) THEN FALSE
  ELSE IF Len(filter.Include) > 0 /\ ~AnyMatch(obj.Key, filter.Include) THEN FALSE
  ELSE TRUE

\* A paginator that stops after its first page.
HasMorePagesNever(rest) == FALSE

\* paginator.HasMorePages() after a page: the listing was truncated.
HasMorePages(rest) == rest # <<>>

\* The objects of a page that pass the filter, in the page's order.
RECURSIVE Included(_, _)
Included(contents, filter) ==
  IF contents = <<>> THEN <<>>
  ELSE (IF shouldIncludeObject(Head(contents), filter) THEN << Head(contents) >> ELSE <<>>)
         \o Included(Tail(contents), filter)

\* The loop of ListObjects over the pages S3 cuts the listing under the
\* prefix into; the request of page failPage fails (0: none does).
RECURSIVE ListPages(_, _, _, _, _, _)
ListPages(matching, filter, pageSize, pageNo, failPage, objects) ==
  IF pageNo = failPage THEN [ok |-> FALSE, objects |-> <<>>]
  ELSE LET n == Min(pageSize, Len(matching))
           contents == SubSeq(matching, 1, n)
           rest == SubSeq(matching, n + 1, Len(matching))
           found == objects \o Included(contents, filter)
       IN IF HasMorePages(rest)
          THEN ListPages(rest, filter, pageSize, pageNo + 1, failPage, found)
          ELSE [ok |-> TRUE, objects |-> found]

\* ListObjectsV2 with Prefix: S3 lists the keys under the prefix, in key order.
RECURSIVE UnderPrefix(_, _)
UnderPrefix(bucket, prefix) ==
  IF bucket = <<>> THEN <<>>
  ELSE (IF HasPrefix(Head(bucket).Key, prefix) THEN << Head(bucket) >> ELSE <<>>)
         \o UnderPrefix(Tail(bucket), prefix)

ListObjects(bucket, filter, pageSize, failPage) ==
  ListPages(UnderPrefix(bucket, filter.Prefix), filter, pageSize, 1, failPage, <<>>)

\* ========================================================= cost estimates
\* The two estimators of the price of storing sizeBytes for a number of
\* epochs. Sizes and epochs are taken small enough that no product leaves
\* the 64-bit range, where Go's int64 arithmetic is the arithmetic of the
\* integers.
MiB == 1048576
\* 64*1024*1024: the metadata every blob carries.
fixedMetadataBytes == 64 * 1024 * 1024
\* 10*1024*1024: below it EstimateStorageCost counts the metadata alone.
SmallFileBytes == 10 * 1024 * 1024
baseCostPerMBPerEpoch == 55000
\* 55000 / 5: the price after the 80% subsidy.
subsidizedCostPerMBPerEpoch == baseCostPerMBPerEpoch \div 5
FrostPerWal == 1000000000

\* (encodedSizeBytes + 1048575) / 1048576: megabytes, rounded up.
encodedSizeMB(encodedSizeBytes) == (encodedSizeBytes + (MiB - 1)) \div MiB

\* int64(epochs) read as a narrower integer.
Int64OfEpochsWrapped(epochs) == epochs % 4

\* int64(epochs): the conversion keeps the value.
Int64OfEpochs(epochs) == epochs

\* The encoded size EstimateStorageCost prices.
StorageEncodedBytes(sizeBytes) ==
  IF sizeBytes < SmallFileBytes THEN fixedMetadataBytes
  ELSE sizeBytes * 5 + fixedMetadataBytes

EstimateStorageCost(sizeBytes, epochs) ==
  encodedSizeMB(StorageEncodedBytes(sizeBytes)) * subsidizedCostPerMBPerEpoch
    * Int64OfEpochs(epochs)

\* totalFROST of EstimateWalrusCost: five times the size plus the metadata,
\* at every size.
totalFROST(sizeBytes, epochs) ==
  encodedSizeMB(sizeBytes * 5 + fixedMetadataBytes) * subsidizedCostPerMBPerEpoch
    * Int64OfEpochs(epochs)

\* float64(totalFROST) / 1_000_000_000.0, kept as the fraction it rounds:
\* the conversion is exact below 2^53 and the division keeps the order.
EstimateWalrusCost(sizeBytes, epochs) ==
  [num |-> totalFROST(sizeBytes, epochs), den |-> FrostPerWal]

\* ==================================================== the S3 proxy endpoint
\* handleS3Proxy as a function of the request and of what the source store
\* does: the status, the body and the operations on the source store the
\* handler reached. json = FALSE is a body that is no S3ProxyResponse (an
\* empty body, the text of http.Error, the streamed bytes of an object).
StatusOK == 200
StatusBadRequest == 400
StatusMethodNotAllowed == 405

\* sendS3ProxyError: 400 and {success:false, error}.
sendS3ProxyError(errMsg, ops) ==
  [status |-> StatusBadRequest, json |-> TRUE, success |-> FALSE, error |-> errMsg, ops |-> ops]

\* sendS3ProxySuccess: the implicit 200 and {success:true, data}.
sendS3ProxySuccess(ops) ==
  [status |-> StatusOK, json |-> TRUE, success |-> TRUE, error |-> "", ops |-> ops]

\* A reply without an envelope.
Plain(status, ops) ==
  [status |-> status, json |-> FALSE, success |-> FALSE, error |-> "", ops |-> ops]

handleListBuckets(req, s3) ==
  IF ~s3.ok THEN sendS3ProxyError("failed to list buckets", << "ListBuckets" >>)
  ELSE sendS3ProxySuccess(<< "ListBuckets" >>)

handleListObjects(req, s3) ==
  IF req.bucket = "" THEN sendS3ProxyError("Bucket name is required", <<>>)
  ELSE IF ~s3.ok THEN sendS3ProxyError("failed to list objects", << "ListObjects" >>)
  ELSE sendS3ProxySuccess(<< "ListObjects" >>)

\* A download handler that checks the bucket alone.
handleDownloadObjectAnyKey(req, s3) ==
  IF req.bucket = "" THEN sendS3ProxyError("Bucket and key are required", <<>>)
  ELSE IF ~s3.ok THEN sendS3ProxyError("failed to get object", << "DownloadObject" >>)
  ELSE sendS3ProxySuccess(<< "DownloadObject" >>)

\* size > 10*1024*1024: the object is streamed, else sent in an envelope.
handleDownloadObject(req, s3) ==
  IF req.bucket = "" \/ req.key = "" THEN sendS3ProxyError("Bucket and key are required", <<>>)
  ELSE IF ~s3.ok THEN sendS3ProxyError("failed to get object", << "DownloadObject" >>)
  ELSE IF s3.large THEN Plain(StatusOK, << "DownloadObject" >>)
  ELSE sendS3ProxySuccess(<< "DownloadObject" >>)

\* EstimateTransferSize lists the objects.
handleEstimateTransfer(req, s3) ==
  IF req.bucket = "" THEN sendS3ProxyError("Bucket name is required", <<>>)
  ELSE IF ~s3.ok THEN sendS3ProxyError("failed to list objects", << "ListObjects" >>)
  ELSE sendS3ProxySuccess(<< "ListObjects" >>)

handleS3Proxy(req, s3) ==
  IF req.method = "OPTIONS" THEN Plain(StatusOK, <<>>)
  ELSE IF req.method # "POST" THEN Plain(StatusMethodNotAllowed, <<>>)
  ELSE IF ~req.json THEN sendS3ProxyError("Invalid request body", <<>>)
  ELSE IF ~req.credentials THEN sendS3ProxyError("AWS credentials are required", <<>>)
  ELSE IF ~s3.client THEN sendS3ProxyError("Failed to create S3 client", <<>>)
  ELSE CASE req.action = "listBuckets" -> handleListBuckets(req, s3)
         [] req.action = "listObjects" -> handleListObjects(req, s3)
         [] req.action = "downloadObject" -> handleDownloadObject(req, s3)
         [] req.action = "estimateTransfer" -> handleEstimateTransfer(req, s3)
         [] OTHER -> sendS3ProxyError("Unknown action", <<>>)

\* ===================================================== calls of functions
\* The package's functions without state, each called on arguments drawn
\* from small sets; call records the arguments and what came back.

\* The "storage" objects a publisher may send.
StorageObjects ==
  { EmptyObject,
    "endEpoch" :> 50,
    "end_epoch" :> 50,
    "storage_end_epoch" :> 60 @@ "storageSize" :> 7,
    "endEpoch" :> 50 @@ "storage_size" :> 7 }

\* The legacy nested objects under "blobObject".
BlobObjects ==
  { ZeroBlobObject,
    [blobId |-> "B2", storage |-> "endEpoch" :> 50 @@ "storage_size" :> 7, size |-> 9] }

\* What may stand under newlyCreated or alreadyCertified.
RawPayloads ==
  { Absent, NotAnObject }
    \cup { [object |-> TRUE, blobId |-> b, endEpoch |-> e, storage |-> st, size |-> sz,
            cost |-> 0, blobObject |-> bo] :
             b \in {"", "B1"}, e \in {0, 40}, st \in StorageObjects, sz \in {0, 9},
             bo \in BlobObjects }

\* The response bodies, and len(data) of the blob that was sent.
Bodies ==
  { NotJson } \cup { Envelope(n, a, c) : n \in RawPayloads, a \in RawPayloads, c \in {0, 4} }
FallbackSizes == {0, 5}

CallDecodeStoreResponse ==
  /\ call = NoCall
  /\ \E body \in Bodies, fallbackSize \in FallbackSizes :
       call' = [fn |-> "decodeStoreResponse", args |-> << body, fallbackSize >>,
                out |-> decodeStoreResponse(body, fallbackSize)]
  /\ UNCHANGED << progVars, retr >>

\* The objects of the source store, in key order, and the buckets made of them.
StoreObjects ==
  << [Key |-> << "data/", "a", ".csv" >>, Size |-> 1, LastModified |-> 1],
     [Key |-> << "data/", "a", ".tmp" >>, Size |-> 5, LastModified |-> 3],
     [Key |-> << "data/", "b", ".tmp" >>, Size |-> 2, LastModified |-> 2],
     [Key |-> << "other/", "c", ".csv" >>, Size |-> 5, LastModified |-> 1] >>

Buckets ==
  { [i \in 1..Cardinality(S) |->
       StoreObjects[CHOOSE j \in S : Cardinality({ k \in S : k < j }) = i - 1]] :
      S \in SUBSET (1..Len(StoreObjects)) }

\* The patterns and the pattern lists of the filters.
Patterns ==
  { << "*", ".tmp" >>, << "data/", "*" >>, << "data/", "a", ".csv" >>, << "*", "a", "*" >> }
PatternLists ==
  { <<>> } \cup { << p >> : p \in Patterns } \cup { << << "*", ".tmp" >>, << "data/", "*" >> >> }

Filters ==
  { NilFilter }
    \cup { [nil |-> FALSE, Prefix |-> <<>>, Include |-> inc, Exclude |-> exc, MinSize |-> lo,
            MaxSize |-> hi, ModifiedAfter |-> after, ModifiedBefore |-> before] :
             inc \in PatternLists, exc \in PatternLists, lo \in {0, 2}, hi \in {0, 4},
             after \in {NoTime, 2}, before \in {NoTime, 2} }

\* The filters of the listings: a prefix, patterns, a lower size bound.
ListFilters ==
  { [nil |-> FALSE, Prefix |-> prefix, Include |-> inc, Exclude |-> exc, MinSize |-> lo,
     MaxSize |-> 0, ModifiedAfter |-> NoTime, ModifiedBefore |-> NoTime] :
      prefix \in { <<>>, << "data/" >>, << "other/" >> },
      inc \in { <<>>, << << "*", ".csv" >> >> },
      exc \in { <<>>, << << "*", ".tmp" >> >>, << << "*", "a", "*" >> >> },
      lo \in {0, 2} }

\* Largest number of keys S3 puts on a page.
MaxPageSize == 2
\* The page whose request fails; 0 when none does.
FailPages == 0..2

CallShouldIncludeObject ==
  /\ call = NoCall
  /\ \E k \in 1..Len(StoreObjects), size \in {1, 5}, modified \in {1, 3}, filter \in Filters :
       LET obj == [Key |-> StoreObjects[k].Key, Size |-> size, LastModified |-> modified]
       IN call' = [fn |-> "shouldIncludeObject", args |-> << obj, filter >>,
                   out |-> shouldIncludeObject(obj, filter)]
  /\ UNCHANGED << progVars, retr >>

CallListObjects ==
  /\ call = NoCall
  /\ \E bucket \in Buckets, filter \in ListFilters, pageSize \in 1..MaxPageSize,
        failPage \in FailPages :
       call' = [fn |-> "ListObjects", args |-> << bucket, filter, pageSize, failPage >>,
                out |-> ListObjects(bucket, filter, pageSize, failPage)]
  /\ UNCHANGED << progVars, retr >>

\* Largest number of epochs a caller asks for.
MaxEpochs == 5
\* The sizes priced: around one kilobyte, one megabyte and the 10 MiB mark.
CostSizes ==
  { 0, 1, 1024, 1000000, MiB, SmallFileBytes - 1, SmallFileBytes, SmallFileBytes + 1,
    2 * SmallFileBytes }

\* The estimators are called again and again, by the batch for every job
\* and by the commands for every file.
Estimating == call = NoCall \/ call.fn \in { "EstimateStorageCost", "EstimateWalrusCost" }

CallEstimateStorageCost ==
  /\ Estimating
  /\ \E sizeBytes \in CostSizes, epochs \in 0..MaxEpochs :
       call' = [fn |-> "EstimateStorageCost", args |-> << sizeBytes, epochs >>,
                out |-> [frost |-> EstimateStorageCost(sizeBytes, epochs), err |-> "nil"]]
  /\ UNCHANGED << progVars, retr >>

CallEstimateWalrusCost ==
  /\ Estimating
  /\ \E sizeBytes \in CostSizes, epochs \in 0..MaxEpochs :
       call' = [fn |-> "EstimateWalrusCost", args |-> << sizeBytes, epochs >>,
                out |-> [frost |-> totalFROST(sizeBytes, epochs),
                         wal |-> EstimateWalrusCost(sizeBytes, epochs)]]
  /\ UNCHANGED << progVars, retr >>

\* for i := 0; i < tm.concurrency; i++ { wg.Add(1); go func() ... }: the
\* number of worker routines the loop starts from i on.
RECURSIVE StartedWorkers(_, _)
StartedWorkers(i, n) == IF i < n THEN 1 + StartedWorkers(i + 1, n) ELSE 0

\* The concurrency values a caller may ask for: below, inside and above 1..10.
RequestedConcurrency == -2..13

\* NewTransferManager(..., c) and the start of the workers of a batch with jobs.
CallNewTransferManager ==
  /\ call = NoCall
  /\ \E c \in RequestedConcurrency :
       LET tm == [concurrency |-> ClampConcurrency(c)]
       IN call' = [fn |-> "NewTransferManager", args |-> << c >>,
                   out |-> [tm |-> tm, workers |-> StartedWorkers(0, tm.concurrency)]]
  /\ UNCHANGED << progVars, retr >>

\* The source keys a job may be built from: plain names, names in folders,
\* folder markers (keys that end in "/") and the key "/".
JobKeys ==
  { << "x" >>, << "a", "/", "x" >>, << "a", "/", "b", "/", "x" >>, << "a", "/" >>,
    << "a", "/", "b", "/" >>, << "/" >>, << "/", "x" >> }

\* The TargetName TransferBatch gives the job of a key, and the one
\* TransferSingle gives it.
CallTargetName ==
  /\ call = NoCall
  /\ \E key \in JobKeys :
       call' = [fn |-> "TargetName", args |-> << key >>,
                out |-> [batch |-> MakeJob([Key |-> key, Size |-> 1], FALSE).TargetName,
                         single |-> Base(key)]]
  /\ UNCHANGED << progVars, retr >>

\* Longest key and longest pattern matchPattern is called with.
MaxTextLen == 3

\* matchPattern on every key over the symbols a and b and every pattern over
\* a, b and the wildcard, the empty ones included.
CallMatchPattern ==
  /\ call = NoCall
  /\ LET texts == UNION { [1..n -> { "a", "b" }] : n \in 0..MaxTextLen }
         patterns == UNION { [1..n -> { "a", "b", "*" }] : n \in 0..MaxTextLen }
     IN \E text \in texts, pattern \in patterns :
          call' = [fn |-> "matchPattern", args |-> << text, pattern >>,
                   out |-> matchPattern(text, pattern)]
  /\ UNCHANGED << progVars, retr >>

\* The requests sent to the proxy endpoint: the method, whether the body is
\* JSON, the action, whether both credentials are given, the bucket, the key.
ProxyActions ==
  { "listBuckets", "listObjects", "downloadObject", "estimateTransfer", "", "deleteObject" }
ProxyRequests ==
  [method : { "POST", "OPTIONS", "GET" }, json : BOOLEAN, action : ProxyActions,
   credentials : BOOLEAN, bucket : { "", "b" }, key : { "", "k" }]
\* The source store: whether NewS3Client succeeds, whether the operation on
\* the store does, whether the object is larger than 10 MiB.
S3Behaviours == [client : BOOLEAN, ok : BOOLEAN, large : BOOLEAN]

CallHandleS3Proxy ==
  /\ call = NoCall
  /\ \E req \in ProxyRequests, s3 \in S3Behaviours :
       call' = [fn |-> "handleS3Proxy", args |-> << req, s3 >>, out |-> handleS3Proxy(req, s3)]
  /\ UNCHANGED << progVars, retr >>

InitFn ==
  /\ Quiet
  /\ retr = IdleRetrieve
  /\ call = NoCall

NextFn ==
  \/ CallDecodeStoreResponse
  \/ CallShouldIncludeObject
  \/ CallListObjects
  \/ CallEstimateStorageCost
  \/ CallEstimateWalrusCost
  \/ CallNewTransferManager
  \/ CallTargetName
  \/ CallHandleS3Proxy
  \/ CallMatchPattern

SpecFn == InitFn /\ [][NextFn]_vars

\* ================================================================ claims
\* A non-dry-run batch with at least one job has returned from wg.Wait().
Drained == phase = "done" /\ ~batchErr /\ ~dryRun /\ listing # <<>>

Results == progress.Results
ResultsOf(key) == { i \in 1..Len(Results) : Results[i].SourceKey = key }
FailedResults == { i \in 1..Len(Results) : ~Results[i].Success }
SuccessfulResults == { i \in 1..Len(Results) : Results[i].Success }
ListedKeys == { listing[i].Key : i \in 1..Len(listing) }

IsPrefix(s, t) == Len(s) <= Len(t) /\ SubSeq(t, 1, Len(s)) = s

\* C1: after a non-dry-run batch has returned, ProcessedFiles is the number
\* of results, FailedFiles the number of failed results, and ProcessedFiles
\* the sum of the successes and FailedFiles.
C1_CountersMatchResults ==
  Drained =>
    /\ progress.ProcessedFiles = Len(Results)
    /\ progress.FailedFiles = Cardinality(FailedResults)
    /\ progress.ProcessedFiles = Cardinality(SuccessfulResults) + progress.FailedFiles

C1_Witness ==
  /\ Drained
  /\ concurrency > 1
  /\ FailedResults # {}
  /\ SuccessfulResults # {}

\* C2: with a context that is never cancelled, failed items do not abort
\* the batch: all N jobs are processed, FailedFiles is the number of items
\* whose download or store failed, and every other item has a successful result.
C2_FailuresDoNotAbort ==
  (Drained /\ ~cancelled) =>
    /\ progress.ProcessedFiles = Len(listing)
    /\ progress.FailedFiles = Cardinality(failedKeys)
    /\ \A k \in ListedKeys \ failedKeys : \E i \in ResultsOf(k) : Results[i].Success

C2_Witness ==
  /\ Drained
  /\ ~cancelled
  /\ concurrency = 2
  /\ Len(listing) = MaxJobs
  /\ Cardinality(failedKeys) = 1
  /\ Results[1].SourceKey # listing[1].Key

\* C3 as claimed: when the batch has returned, every job pushed onto the
\* queue has exactly one result, cancelled runs included.
C3_ExactlyOneResultPerJob ==
  Drained => \A k \in ListedKeys : Cardinality(ResultsOf(k)) = 1

\* C3 as amended: every job pushed onto the queue has at most one result,
\* and exactly one when the context was not cancelled.
C3_AtMostOneResultPerJob ==
  Drained =>
    \A k \in ListedKeys :
      /\ Cardinality(ResultsOf(k)) <= 1
      /\ ~cancelled => Cardinality(ResultsOf(k)) = 1

C3_Witness ==
  /\ Drained
  /\ cancelled
  /\ \E k \in ListedKeys : ResultsOf(k) = {}
  /\ \E k \in ListedKeys : Cardinality(ResultsOf(k)) = 1

\* C4: once the context is cancelled, no worker enters transferSingleFile
\* with a job it took from the queue after the cancellation, and no result
\* already appended leaves Results.
C4_NoTransferAfterCancel ==
  [][ /\ \A w \in Workers :
           ~(wk[w].late /\ wk[w].pc = "select" /\ wk'[w].pc = "transfer")
      /\ cancelled => IsPrefix(progress.Results, progress'.Results) ]_vars

\* C7: once the batch has drained, every successful result finds, under its
\* TargetName, an index entry with its BlobID.
C7_IndexMatchesResults ==
  Drained =>
    \A i \in SuccessfulResults :
      \E e \in index : e.Name = Results[i].TargetName /\ e.BlobID = Results[i].BlobID

\* C8: after a batch with more than one worker has drained and every
\* SaveIndex write succeeded, the document on disk is the in-memory index.
C8_DiskEqualsIndex ==
  (Drained /\ concurrency > 1 /\ writable /\ SuccessfulResults # {}) => disk = Doc(index)

\* C9: every document SaveIndex serialises is the whole in-memory index of
\* the instant of the serialisation, taken while no put is in progress, and
\* once SaveIndex has written it the file on disk holds that document.
C9_NoTornIndex ==
  [][ \A w \in Workers :
        /\ (wk[w].pc = "marshal" /\ wk'[w].pc = "open") =>
              (indexMu = 0 /\ wk'[w].data = Doc(index))
        /\ (wk[w].pc = "write" /\ wk'[w].pc = "count") =>
              (disk' = wk[w].data /\ ~disk'.torn) ]_vars

\* Every result handed to a caller: the batch's Results, TransferSingle's
\* result, the entries of a POST transfer response.
C5_Handed ==
  { [Success |-> Results[i].Success, BlobID |-> Results[i].BlobID] : i \in 1..Len(Results) }
    \cup { [Success |-> handed[i].Success, BlobID |-> handed[i].BlobID] : i \in 1..Len(handed) }
    \cup { [Success |-> response[i].success, BlobID |-> response[i].blobId] : i \in 1..Len(response) }

\* C5: every successful result handed to a caller has a non-empty BlobID,
\* TransferSingle in dry-run mode included.
C5_SuccessHasBlobID == \A r \in C5_Handed : r.Success => r.BlobID # ""

\* C6: no entry of the local index, in memory or in a persisted document,
\* has an empty BlobID.
C6_NoEmptyBlobID == \A e \in index \cup disk.Files \cup rcloneDoc.Files : e.BlobID # ""

\* C10: a transfer command removes no name from the persisted index document.
C10_NoEntryDeleted ==
  [][ response' # <<>> =>
        \A e \in disk.Files : \E f \in disk'.Files : f.Name = e.Name ]_vars

\* ------------------------------------------------ RetrieveBlob (C11..C13)
\* The failures the specification calls transient: a transport error that
\* names connection refused or reset, a timeout, a DNS failure or an
\* unreachable network, or a 429 or 503 response.
Transient(answer) ==
  \/ /\ answer.kind = "error"
     /\ answer.msg \in { ConnRefused, ConnReset, ClientTimeout, DialTimeout, DnsTemporary,
                         NoSuchHost, NetUnreachable }
  \/ /\ answer.kind = "response"
     /\ answer.status \in {429, 503}

\* The error one attempt ends with.
AttemptError(answer) ==
  IF answer.kind = "error" THEN answer.msg ELSE StatusError(answer.status, answer.body)

Returned == retr.pc = "returned"
Attempts == Len(retr.log)

\* C11: RetrieveBlob makes at most 3 attempts, every attempt but the last
\* one made ended in a transient failure, and an attempt that ends in
\* anything else than a transient failure or a complete 200 response ends the call
\* with an error, that attempt being the last.
C11_RetryOnlyTransient ==
  /\ Attempts <= 3
  /\ \A i \in 1..(Attempts - 1) : Transient(retr.log[i])
  /\ \A i \in 1..Attempts :
       (~Transient(retr.log[i]) /\ retr.log[i] # GetResponse(200, retr.log[i].body, TRUE))
         => (Returned /\ i = Attempts /\ retr.err # <<>> /\ retr.data = "")

\* A call that made a second attempt after a 429 and ended on a 404.
C11_Witness ==
  /\ Returned
  /\ Attempts = 2
  /\ retr.log[1].kind = "response"
  /\ retr.log[2] = GetResponse(404, "E4", TRUE)

\* The first k + 1 answers are k transient failures and then a complete 200.
SucceedsAt(script, k) ==
  /\ \A i \in 1..k : Transient(script[i])
  /\ script[k + 1] = GetResponse(200, script[k + 1].body, TRUE)

\* C12: when the first k answers (k = 0, 1, 2) are transient failures and
\* answer k+1 is a 200 whose body arrives, RetrieveBlob returns that body
\* and no error.
C12_SuccessAfterTransient ==
  Returned =>
    \A k \in 0..2 :
      SucceedsAt(retr.script, k) =>
        (retr.data = retr.script[k + 1].body /\ retr.err = <<>> /\ Attempts = k + 1)

\* Two connection resets, then the blob on the third attempt.
C12_Witness ==
  /\ Returned
  /\ retr.log = << GetError(ConnReset), GetError(ConnReset), GetResponse(200, "D2", TRUE) >>
  /\ retr.data = "D2"

\* C13: when all 3 attempts end in transient failures, the call fails with
\* the error that wraps the error of the third attempt.
C13_WrapsLastError ==
  (Returned /\ \A i \in 1..3 : Transient(retr.script[i])) =>
    /\ retr.data = ""
    /\ retr.err = Errorf("failed after 3 attempts:", AttemptError(retr.script[3]))

\* Three different transient failures, a 503 the last.
C13_Witness ==
  /\ Returned
  /\ retr.log = << GetError(ConnRefused), GetError(ClientTimeout), GetResponse(503, "E3", TRUE) >>
  /\ retr.err = << "failed after 3 attempts:", "status", "503", "E3" >>

\* ------------------------------------------- decodeStoreResponse (C14..C16)
Decoded == call.fn = "decodeStoreResponse"

\* {"alreadyCertified":{"blobId":"B1","storage":{"end_epoch":50}}}
C14_Body == Envelope(Absent, [Payload("B1", "") EXCEPT !.storage = "end_epoch" :> 50], 0)

\* C14: that body decodes to BlobID "B1", EndEpoch 50, AlreadyCertified true.
C14_EndEpochDecoded ==
  (Decoded /\ call.args[1] = C14_Body) =>
    /\ call.out.ok
    /\ call.out.BlobID = "B1"
    /\ call.out.EndEpoch = 50
    /\ call.out.AlreadyCertified

\* The flat or the nested decoding of a payload yields a blob id.
YieldsBlobID(raw) == raw.object /\ (raw.blobId # "" \/ raw.blobObject.blobId # "")

\* C15: the decoding fails exactly when the body holds neither key or no
\* payload it holds yields a blob id; otherwise, and so whenever the
\* alreadyCertified payload decodes, it returns a non-empty BlobID, with
\* AlreadyCertified set exactly when the alreadyCertified outcome was decoded.
C15_FailsExactlyWhenUndecodable ==
  Decoded =>
    LET body == call.args[1]
        newly == body.newlyCreated
        already == body.alreadyCertified
    IN /\ ~call.out.ok <=>
            \/ ~body.json
            \/ IsAbsent(newly) /\ IsAbsent(already)
            \/ ~YieldsBlobID(newly) /\ ~YieldsBlobID(already)
       /\ call.out.ok =>
            /\ call.out.BlobID # ""
            /\ call.out.AlreadyCertified => YieldsBlobID(already)
            /\ ~call.out.AlreadyCertified => YieldsBlobID(newly)

\* The size the specification's order gives: the payload's size field, then
\* the storage object's size, then the length of the data sent.
C16_ExpectedSize(raw, fallbackSize) ==
  IF raw.size > 0 THEN raw.size
  ELSE IF StorageSize(UnmarshalStorage(raw.storage)) > 0
  THEN StorageSize(UnmarshalStorage(raw.storage))
  ELSE fallbackSize

\* C16: the Size of a StoreResponse decoded from a flat newlyCreated payload
\* is the first positive of payload size, storage size, sent length.
C16_PayloadSizeFirst ==
  (Decoded /\ call.args[1].json /\ call.args[1].newlyCreated.object
     /\ call.args[1].newlyCreated.blobId # "") =>
    /\ call.out.ok
    /\ call.out.Size = C16_ExpectedSize(call.args[1].newlyCreated, call.args[2])

\* --------------------------------------------- the source filter (C17, C18)
\* The object passes the size and date bounds the filter sets.
PassesBounds(obj, filter) ==
  /\ filter.MinSize > 0 => obj.Size >= filter.MinSize
  /\ filter.MaxSize > 0 => obj.Size <= filter.MaxSize
  /\ filter.ModifiedAfter # NoTime => obj.LastModified >= filter.ModifiedAfter
  /\ filter.ModifiedBefore # NoTime => obj.LastModified <= filter.ModifiedBefore

\* C17: with a filter, an object whose key one of the exclude patterns
\* matches is rejected, whatever the include list; with an empty include
\* list an object inside the bounds that no exclude pattern matches is
\* accepted. A match is what matchPattern answers.
C17_ExcludeWins ==
  (call.fn = "shouldIncludeObject" /\ ~call.args[2].nil) =>
    LET obj == call.args[1]
        filter == call.args[2]
    IN /\ AnyMatch(obj.Key, filter.Exclude) => ~call.out
       /\ (Len(filter.Include) = 0 /\ PassesBounds(obj, filter)
             /\ ~AnyMatch(obj.Key, filter.Exclude)) => call.out

\* A key inside the bounds that an include and an exclude pattern both match.
C17_Witness ==
  /\ call.fn = "shouldIncludeObject"
  /\ ~call.args[2].nil
  /\ call.args[1].Key = << "data/", "a", ".tmp" >>
  /\ call.args[2].Include = << << "data/", "*" >> >>
  /\ call.args[2].Exclude = << << "*", ".tmp" >> >>
  /\ PassesBounds(call.args[1], call.args[2])
  /\ ~call.out

\* The objects of a bucket under the filter's prefix that the filter accepts.
RECURSIVE C18_Expected(_, _)
C18_Expected(bucket, filter) ==
  IF bucket = <<>> THEN <<>>
  ELSE (IF HasPrefix(Head(bucket).Key, filter.Prefix) /\ shouldIncludeObject(Head(bucket), filter)
        THEN << Head(bucket) >> ELSE <<>>) \o C18_Expected(Tail(bucket), filter)

\* data/a.csv, data/b.tmp, other/c.csv under {prefix "data/", exclude ["*.tmp"]}
C18_Bucket == << StoreObjects[1], StoreObjects[3], StoreObjects[4] >>
C18_Filter ==
  [NilFilter EXCEPT !.nil = FALSE, !.Prefix = << "data/" >>, !.Exclude = << << "*", ".tmp" >> >>]

\* C18: a listing that does not fail returns exactly the objects under the
\* prefix that the filter accepts, whatever the page size; the example
\* yields data/a.csv alone.
C18_ListsExactlyFiltered ==
  (call.fn = "ListObjects" /\ call.args[4] = 0) =>
    /\ call.out.ok
    /\ call.out.objects = C18_Expected(call.args[1], call.args[2])
    /\ (call.args[1] = C18_Bucket /\ call.args[2] = C18_Filter) =>
         call.out.objects = << StoreObjects[1] >>

\* The example, listed in pages of one key.
C18_Witness ==
  /\ call.fn = "ListObjects"
  /\ call.args[1] = C18_Bucket
  /\ call.args[2] = C18_Filter
  /\ call.args[3] = 1
  /\ call.args[4] = 0
  /\ call.out.objects = << StoreObjects[1] >>

\* ------------------------------------------------- cost estimates (C19, C20)
\* The price of the metadata alone: 64 MiB at the subsidized price.
C19_OverheadOnly(epochs) == 64 * 11000 * epochs

\* C19: below 10 MiB both estimators return the price of the metadata
\* alone, so that sizes below the mark cost the same at the same number of
\* epochs.
C19_SmallSizeIsOverheadOnly ==
  (call.fn \in { "EstimateStorageCost", "EstimateWalrusCost" }
     /\ call.args[1] < 10 * 1024 * 1024) =>
    call.out.frost = C19_OverheadOnly(call.args[2])

\* C20: for a fixed size the FROST total of either estimator does not
\* decrease when the number of epochs grows.
C20_MonotonicInEpochs ==
  [][(/\ call.fn \in { "EstimateStorageCost", "EstimateWalrusCost" }
      /\ call'.fn = call.fn
      /\ call'.args[1] = call.args[1]
      /\ call.args[2] <= call'.args[2]) => call.out.frost <= call'.out.frost]_vars

\* Either estimator priced a size at more epochs than one and charged for it.
C20_Witness ==
  /\ call.fn \in { "EstimateStorageCost", "EstimateWalrusCost" }
  /\ call.args[2] > 1
  /\ call.out.frost > 0

\* --------------------------------------------------------- dry run (C21)
\* C21: a dry-run TransferBatch that lists its objects downloads nothing,
\* stores nothing and leaves the index and its document alone; the progress
\* it returns counts every matched object as processed and none as failed.
C21_DryRunTransfersNothing ==
  [][(phase = "init" /\ dryRun /\ phase' = "done" /\ ~batchErr') =>
       /\ traffic' = NoTraffic
       /\ UNCHANGED << index, disk >>
       /\ progress'.TotalFiles = Len(listing)
       /\ progress'.ProcessedFiles = progress'.TotalFiles
       /\ progress'.FailedFiles = 0]_vars

\* A dry run over a listing of several objects has returned.
C21_Witness ==
  /\ phase = "done"
  /\ dryRun
  /\ ~batchErr
  /\ Len(listing) > 1
  /\ progress.ProcessedFiles = Len(listing)
  /\ traffic = NoTraffic

\* ----------------------------------------------------- concurrency (C22)
\* C22: NewTransferManager turns every requested concurrency into a value of
\* 1..10 (1 for values <= 0, 10 for values > 10, the value itself otherwise),
\* and a batch with jobs starts exactly that many worker routines.
C22_ClampedNotRejected ==
  call.fn = "NewTransferManager" =>
    LET c == call.args[1]
    IN /\ call.out.tm.concurrency = (IF c <= 0 THEN 1 ELSE IF c > 10 THEN 10 ELSE c)
       /\ call.out.workers = call.out.tm.concurrency

\* A manager asked for more than ten workers started ten.
C22_Witness ==
  /\ call.fn = "NewTransferManager"
  /\ call.args[1] > 10
  /\ call.out.workers = 10

\* ------------------------------------------------------ target names (C23)
\* What follows the last "/" of a key; the whole key when that is empty.
C23_LastSegmentOrKey(key) ==
  LET segment == SubSeq(key, LastSlash(key) + 1, Len(key))
  IN IF segment = <<>> THEN key ELSE segment

\* C23: the TargetName of a job is the last path segment of its key, the
\* whole key when that segment is empty, in TransferBatch and in
\* TransferSingle alike.
C23_TargetNameIsLastSegment ==
  call.fn = "TargetName" =>
    /\ call.out.batch = C23_LastSegmentOrKey(call.args[1])
    /\ call.out.single = call.out.batch

\* ----------------------------------------------------- LoadIndex (C24, C25)
\* C24: LoadIndex on a document that is not the JSON of an index returns no
\* error, leaves the index empty, as on a missing document, and leaves the
\* document as it is.
C24_CorruptLoadsAsMissing ==
  [][(disk.exists /\ disk.torn /\ lastOp'.op = "LoadIndex") =>
       /\ lastOp'.err = ""
       /\ index' = {}
       /\ disk' = disk]_vars

\* C25: LoadIndex on a missing document returns no error and leaves an empty
\* index; an Upload that follows and stores its blob puts its entry.
C25_MissingLoadsEmpty ==
  [][/\ (~disk.exists /\ lastOp'.op = "LoadIndex") =>
          (lastOp'.err = "" /\ index' = {} /\ disk' = disk)
     /\ (lastOp.op = "LoadIndex" /\ ~disk.exists /\ lastOp'.op = "Upload" /\ lastOp'.err = "") =>
          { e.Name : e \in index' } = UploadNames]_vars

\* LoadIndex found no document, on a file system that cannot be written, and
\* returned.
C25_Witness ==
  /\ lastOp = [op |-> "LoadIndex", err |-> ""]
  /\ ~disk.exists
  /\ ~writable
  /\ index = {}

\* -------------------------------------------------- listing failure (C26)
\* C26: once the listing has failed, TransferBatch has returned its error
\* with no progress: no job was created, no worker was started, nothing was
\* downloaded or stored, and the index and its document are as they were.
C26_ListErrorStopsBatch ==
  batchErr =>
    /\ phase = "done"
    /\ progress = EmptyProgress
    /\ jobChan = <<>>
    /\ \A w \in Workers : wk[w] = IdleWorker
    /\ traffic = NoTraffic
    /\ index = {}
    /\ disk = MissingDoc

\* The listing of a bucket with objects to transfer has failed.
C26_Witness ==
  /\ batchErr
  /\ phase = "done"
  /\ ~dryRun
  /\ listing # <<>>

\* --------------------------------------------------------- no retry (C27)
\* C27: for every job DownloadObject is called at most once and StoreBlob at
\* most once, whatever they return, and every call of StoreBlob issues one
\* HTTP PUT.
C27_NoRetry ==
  /\ \A key \in ListedKeys :
       /\ CopiesIn(key, traffic.downloads) <= 1
       /\ CopiesIn(key, traffic.stores) <= 1
  /\ traffic.puts = traffic.stores

\* The batch has drained and the store of some job failed after its one call.
C27_Witness ==
  /\ Drained
  /\ \E key \in failedKeys :
       /\ CopiesIn(key, traffic.downloads) = 1
       /\ CopiesIn(key, traffic.stores) = 1
       /\ CopiesIn(key, traffic.puts) = 1

\* ------------------------------------------------ the transfer endpoint (C28)
\* C28: the response of POST transfer has one entry for every requested key,
\* in the order of the request, and every entry that reports a failure
\* carries an error message.
C28_NoSilentFailure ==
  lastOp.op = "handleS3Transfer" =>
    /\ Len(response) = Len(lastOp.keys)
    /\ \A i \in 1..Len(response) :
         /\ response[i].key = lastOp.keys[i]
         /\ ~response[i].success => response[i].error # ""

\* ---------------------------------------------------- the proxy endpoint (C29)
\* The request lacks a field its action needs, or names no known action.
C29_Malformed(req) ==
  \/ req.action \in { "listObjects", "estimateTransfer" } /\ req.bucket = ""
  \/ req.action = "downloadObject" /\ (req.bucket = "" \/ req.key = "")
  \/ req.action \notin { "listBuckets", "listObjects", "downloadObject", "estimateTransfer" }

\* C29: a POST to the proxy endpoint whose body lacks a field its action
\* needs, or whose action is unknown, is answered with HTTP 400 and the
\* envelope {success:false, error}, and no operation on the source store is
\* reached.
C29_MalformedIs400 ==
  (call.fn = "handleS3Proxy" /\ call.args[1].method = "POST" /\ call.args[1].json
     /\ C29_Malformed(call.args[1])) =>
    /\ call.out.status = 400
    /\ call.out.json
    /\ ~call.out.success
    /\ call.out.error # ""
    /\ call.out.ops = <<>>

\* A download request with credentials and a bucket but no key, sent to a
\* store that would have served it.
C29_Witness ==
  /\ call.fn = "handleS3Proxy"
  /\ call.args[1] = [method |-> "POST", json |-> TRUE, action |-> "downloadObject",
                     credentials |-> TRUE, bucket |-> "b", key |-> ""]
  /\ call.args[2].client
  /\ call.args[2].ok
  /\ call.out.status = 400

\* ------------------------------------------- a failed single transfer (C30)
\* The steps of transferSingleFile that can fail, by the error they leave.
C30_Steps == { "download", "buffer", "read", "upload" }

\* C30: when TransferSingle returns a result that is no success, the result
\* carries an error and no BlobID, and the in-memory index and the index
\* document are what they were before the call.
C30_FailureChangesNothing ==
  [][ (lastOp'.op = "TransferSingle" /\ handed' # <<>> /\ ~handed'[1].Success) =>
        /\ handed'[1].Error \in C30_Steps
        /\ handed'[1].BlobID = ""
        /\ index' = index
        /\ disk' = disk ]_vars

\* TransferSingle has returned a result whose store failed, on a process
\* that has an index and a document to lose.
C30_Witness ==
  /\ lastOp = [op |-> "TransferSingle", err |-> ""]
  /\ handed # <<>>
  /\ ~handed[1].Success
  /\ handed[1].Error = "upload"
  /\ index # {}
  /\ disk = Doc(index)
  /\ writable

\* ------------------------------------------- a failed SaveIndex (C31)
\* The index entry of a stored item.
C31_Entry(files, name, blobID) == \E e \in files : e.Name = name /\ e.BlobID = blobID

\* C31: a SaveIndex that fails after a successful store is not fatal. In a
\* batch the put has entered the item into the in-memory index, the failed
\* save leaves the index, the document and the successful result as they
\* are, and the worker counts the item as processed and successful and
\* appends the result; Upload and TransferSingle return the success with the
\* blob id and the in-memory index holds the entry.
C31_SaveFailureNotFatal ==
  [][ /\ \A w \in Workers :
           /\ (wk[w].pc = "iput" /\ wk'[w].pc # "iput") =>
                C31_Entry(index', wk[w].job.TargetName, wk[w].result.BlobID)
           /\ (wk[w].pc = "open" /\ ~writable /\ wk'[w] # wk[w]) =>
                /\ wk'[w].pc = "count"
                /\ wk'[w].result = wk[w].result
                /\ wk[w].result.Success
                /\ index' = index
                /\ disk' = disk
           /\ (wk[w].pc = "count" /\ ~writable /\ wk'[w] # wk[w]) =>
                progress'.ProcessedFiles = progress.ProcessedFiles + 1
           /\ (wk[w].pc = "outcome" /\ ~writable /\ wk[w].result.Success /\ wk'[w] # wk[w]) =>
                /\ progress'.FailedFiles = progress.FailedFiles
                /\ progress'.ProcessedBytes = progress.ProcessedBytes + wk[w].job.Size
           /\ (wk[w].pc = "append" /\ ~writable /\ wk'[w] # wk[w]) =>
                progress'.Results = Append(progress.Results, wk[w].result)
      /\ (~writable /\ lastOp'.op = "Upload" /\ lastOp'.err = "") =>
           /\ \E name \in UploadNames : C31_Entry(index', name, lastOp'.blobId)
           /\ disk' = disk
      /\ (~writable /\ lastOp'.op = "TransferSingle" /\ handed' # <<>> /\ handed'[1].Success) =>
           /\ C31_Entry(index', handed'[1].TargetName, handed'[1].BlobID)
           /\ disk' = disk ]_vars

\* A batch on a read-only index path has drained: an item was stored and is
\* counted as successful, the index holds it and no document was written.
C31_Witness ==
  /\ Drained
  /\ ~writable
  /\ SuccessfulResults # {}
  /\ progress.ProcessedBytes > 0
  /\ progress.FailedFiles = 0
  /\ index # {}
  /\ disk = MissingDoc

\* Upload has returned a blob id on a read-only index path.
C31_UploadWitness ==
  /\ phase = "idle"
  /\ ~writable
  /\ lastOp = [op |-> "Upload", err |-> "", blobId |-> "B5"]
  /\ index # {}

\* ------------------------------------------------ the sealed name (C32)
\* C32: a POST transfer indexes every item it stored under its target name,
\* with ".sealed" appended when the request asked for encryption and plain
\* when it did not.
C32_SealedWhenRequested ==
  (lastOp.op = "handleS3Transfer" /\ writable) =>
    \A i \in 1..Len(response) :
      response[i].success =>
        \E e \in disk.Files :
          /\ e.Name = Sealed(Base(lastOp.keys[i]), lastOp.encrypt)
          /\ e.BlobID = response[i].blobId

\* The same for a batch: every put of a worker is under the job's target
\* name, sealed exactly when the batch has encryption enabled.
C32_BatchSealed ==
  [][ \A w \in Workers :
        (wk[w].pc = "iput" /\ wk'[w].pc # "iput") =>
          \E i \in 1..Len(listing) :
            /\ listing[i].Key = wk[w].job.Key
            /\ \E e \in index' :
                 /\ e.Name = Sealed(MakeJob(listing[i], encrypt).TargetName, encrypt)
                 /\ e.BlobID = wk[w].result.BlobID ]_vars

\* ------------------------------------------------ the reference glob (C33)
\* The glob of the specification: "*" matches any substring, the empty one
\* included, and every other symbol matches itself.
RECURSIVE C33_Glob(_, _)
C33_Glob(text, pattern) ==
  IF pattern = <<>> THEN text = <<>>
  ELSE IF Head(pattern) = "*"
  THEN \E k \in 0..Len(text) : C33_Glob(SubSeq(text, k + 1, Len(text)), Tail(pattern))
  ELSE /\ text # <<>>
       /\ Head(text) = Head(pattern)
       /\ C33_Glob(Tail(text), Tail(pattern))

\* C33: matchPattern gives the verdict of the reference glob on every text
\* and every pattern.
C33_AgreesWithGlob ==
  call.fn = "matchPattern" => (call.out <=> C33_Glob(call.args[1], call.args[2]))

\* The number of wildcards of a pattern.
C33_Stars(pattern) == Cardinality({ i \in 1..Len(pattern) : pattern[i] = "*" })

\* matchPattern never rejects what the glob accepts ...
C33_NoFalseNegative ==
  call.fn = "matchPattern" => (C33_Glob(call.args[1], call.args[2]) => call.out)

\* ... and agrees with it on every pattern that has no wildcard or more
\* than one.
C33_AgreesUnlessOneStar ==
  (call.fn = "matchPattern" /\ C33_Stars(call.args[2]) # 1) =>
    (call.out <=> C33_Glob(call.args[1], call.args[2]))

\* ---------------------------------------------------- the semaphore (C34)
\* The workers inside transferSingleFile, and those that hold a permit.
C34_Inside ==
  { w \in Workers : wk[w].pc \in { "transfer", "ilock", "iput", "marshal", "open", "write" } }
C34_Holding == { w \in Workers : wk[w].pc \notin { "recv", "select", "exited" } }

\* C34: while a batch runs, at most tm.concurrency jobs are inside
\* transferSingleFile, the permits held are those of the workers past the
\* select, one each, and never more than the capacity, and a worker at the
\* select always finds a free permit.
C34_PermitsNeverBlock ==
  phase = "executing" =>
    /\ concurrency \in MinConcurrency..MaxConcurrency
    /\ Cardinality(C34_Inside) <= concurrency
    /\ semaphore = Cardinality(C34_Holding)
    /\ semaphore <= concurrency
    /\ \A w \in Workers : wk[w].pc = "select" => semaphore < concurrency

\* Every worker of a pool of two is inside transferSingleFile, every permit
\* is held and jobs are still queued.
C34_Witness ==
  /\ phase = "executing"
  /\ concurrency = 2
  /\ Cardinality(C34_Inside) = 2
  /\ semaphore = 2
  /\ jobChan # <<>>

\* ------------------------------------------------ the progress bounds (C35)
\* The bounds of the counters of a TransferProgress.
C35_Bounded(p) ==
  /\ Len(p.Results) <= p.ProcessedFiles
  /\ p.ProcessedFiles <= p.TotalFiles
  /\ p.FailedFiles <= p.ProcessedFiles
  /\ p.ProcessedBytes <= p.TotalBytes
  /\ \A i, j \in 1..Len(p.Results) : p.Results[i].SourceKey = p.Results[j].SourceKey => i = j

\* C35: the progress of a batch is always within its bounds and carries no
\* source key twice, and while the batch runs no counter decreases and
\* Results only gets longer.
C35_ProgressBoundedAndGrowing ==
  [][ /\ C35_Bounded(progress)
      /\ C35_Bounded(progress')
      /\ phase = "executing" =>
           /\ progress'.TotalFiles = progress.TotalFiles
           /\ progress'.TotalBytes = progress.TotalBytes
           /\ progress'.ProcessedFiles >= progress.ProcessedFiles
           /\ progress'.FailedFiles >= progress.FailedFiles
           /\ progress'.ProcessedBytes >= progress.ProcessedBytes
           /\ IsPrefix(progress.Results, progress'.Results) ]_vars

\* A running batch of two workers: one item has failed and is appended, a
\* second is counted and not yet appended, a third is not yet counted.
C35_Witness ==
  /\ phase = "executing"
  /\ concurrency = 2
  /\ Len(progress.Results) = 1
  /\ progress.ProcessedFiles = 2
  /\ progress.TotalFiles = 3
  /\ progress.FailedFiles = 1
  /\ progress.ProcessedBytes > 0

\* ------------------------------------------------------ termination (C36)
\* C36: under fair scheduling TransferBatch returns, and a batch that has
\* started its workers returns with every worker exited, whether or not the
\* context is cancelled.
C36_BatchTerminates ==
  /\ <>(phase = "done")
  /\ (phase = "executing") ~> (phase = "done" /\ \A w \in Workers : wk[w].pc = "exited")

\* A batch with more jobs than workers has returned without a cancellation.
C36_Witness ==
  /\ phase = "done"
  /\ ~cancelled
  /\ concurrency = 1
  /\ Len(listing) = 2
  /\ Len(progress.Results) = 2
  /\ \A w \in Workers : wk[w].pc = "exited"

\* A cancelled batch has returned with jobs left in the queue.
C36_CancelledWitness ==
  /\ phase = "done"
  /\ cancelled
  /\ jobChan # <<>>
  /\ \A w \in Workers : wk[w].pc = "exited"

\* ---------------------------------------------------- ProcessedBytes (C37)
\* The listed objects whose job has a successful result.
C37_Stored ==
  SelectSeq(listing, LAMBDA obj : \E i \in SuccessfulResults : Results[i].SourceKey = obj.Key)

\* C37: after a non-dry-run batch has returned, ProcessedBytes is the sum of
\* the listed sizes of the jobs that have a successful result, each counted
\* once, and of no other job.
C37_BytesOfSuccesses ==
  Drained => progress.ProcessedBytes = SumSizes(C37_Stored)

\* A drained batch of three items of which one failed and two were stored.
C37_Witness ==
  /\ Drained
  /\ Cardinality(FailedResults) = 1
  /\ Cardinality(SuccessfulResults) = 2
  /\ progress.ProcessedBytes > 0
  /\ progress.ProcessedBytes < progress.TotalBytes

\* ------------------------------------------- the two estimators (C38)
\* C38: a caller that prices a size with EstimateStorageCost and then the
\* same size and epochs with EstimateWalrusCost gets the same FROST total.
C38_EstimatorsAgree ==
  [][(/\ call.fn = "EstimateStorageCost"
      /\ call'.fn = "EstimateWalrusCost"
      /\ call'.args = call.args) => call'.out.frost = call.out.frost]_vars

\* The estimators agree on the empty object and from 10 MiB on.
C38_AgreeOffSmallSizes ==
  [][(/\ call.fn = "EstimateStorageCost"
      /\ call'.fn = "EstimateWalrusCost"
      /\ call'.args = call.args
      /\ (call.args[1] = 0 \/ call.args[1] >= 10 * 1024 * 1024))
        => call'.out.frost = call.out.frost]_vars

====
